---- MODULE Spec2Model ----
(***************************************************************************)
(* snocat: the in-memory tunnel registry (common/protocol/traits.rs) and   *)
(* the tunnel lifecycle of the modular daemon (server/modular.rs).         *)
(*                                                                         *)
(* Three specifications share the variables:                               *)
(*   RegSpec   - callers issue register/name/deregister/lookup against one *)
(*               InMemoryTunnelRegistry, every call taking the registry's  *)
(*               mutex, running its body and returning;                    *)
(*   Spec      - ModularDaemon::run over a source of tunnels, one          *)
(*               lifecycle per tunnel, all running concurrently;           *)
(*   ServeSpec - the same daemon over a source of one tunnel, with the     *)
(*               outcome of every sub-stream handler kept for inspection.  *)
(***************************************************************************)
EXTENDS Integers, Sequences, FiniteSets, TLC

(* ------------------------------ bounds --------------------------------- *)
NumTunnels == 2
NumIds == 2
NumNames == 2
MaxSubstreams == 2
MaxServices == 3
NumRequests == 2
NumPorts == 3
NumAddrs == 2
MaxScopeId == 1
NumObjects == 1
NumConsumers == 1
NumSubscribers == 1
NumDelegations == 1
NumContexts == 2
MaxEvents == 34
NumFulfillers == 2
NumFires == 2
NumEventIds == 2

(* event_channel(32) *)
EventCapacity == 32

Tunnels == 1..NumTunnels
TunnelIds == 1..NumIds
TunnelNames == 1..NumNames
Slots == 1..MaxSubstreams
Requests == 1..NumRequests

(* Option<TunnelName>::None, and a map lookup that found nothing *)
NoName == 0
NoHolder == 0

(* ===================== InMemoryTunnelRegistry ========================== *)
(* The BTreeMap<TunnelId, TunnelRecord> is a function from the ids it      *)
(* holds to their records.                                                 *)

TunnelRecord(tunnel_id, name, tunnel) ==
  [id |-> tunnel_id, name |-> name, tunnel |-> tunnel]

EmptyMap == [k \in {} |-> TunnelRecord(0, NoName, 0)]

contains_key(map, tunnel_id) == tunnel_id \in DOMAIN map

insert(map, tunnel_id, record) ==
  [k \in DOMAIN map \cup {tunnel_id} |-> IF k = tunnel_id THEN record ELSE map[k]]

remove_nothing(map, tunnel_id) == map

remove(map, tunnel_id) ==
  [k \in DOMAIN map \ {tunnel_id} |-> map[k]]

Ok == [tag |-> "Ok"]
IdOccupied(tunnel_id) == [tag |-> "IdOccupied", id |-> tunnel_id]
NameOccupied(name) == [tag |-> "NameOccupied", name |-> name]
TunnelNotRegistered(tunnel_id) == [tag |-> "TunnelNotRegistered", id |-> tunnel_id]
ApplicationError == [tag |-> "ApplicationError"]
NotFound == [tag |-> "NotFound"]
Some(record) == [tag |-> "Some", rec |-> record]
None == [tag |-> "None"]
NoRet == [tag |-> "NoRet"]

lookup_by_id(map, tunnel_id) ==
  IF tunnel_id \in DOMAIN map THEN Some(map[tunnel_id]) ELSE None

(* iter().find(..): the first record, in key order, that carries the name *)
lookup_by_name(map, tunnel_name) ==
  LET hits == {k \in DOMAIN map : map[k].name = tunnel_name}
  IN  IF hits = {} THEN None
      ELSE Some(map[CHOOSE k \in hits : \A j \in hits : k <= j])

register_tunnel_unchecked(map, tunnel_id, tunnel) ==
  [map |-> insert(map, tunnel_id, TunnelRecord(tunnel_id, NoName, tunnel)),
   ret |-> Ok]

register_tunnel(map, tunnel_id, tunnel) ==
  IF contains_key(map, tunnel_id)
  THEN [map |-> map, ret |-> IdOccupied(tunnel_id)]
  ELSE [map |-> insert(map, tunnel_id, TunnelRecord(tunnel_id, NoName, tunnel)),
        ret |-> Ok]

name_occupied_counts_self(map, tunnel_id, name) ==
  \E k \in DOMAIN map : map[k].name = name

name_occupied_unchecked(map, tunnel_id, name) == FALSE

(* any(|(id, record)| record.name == Some(name) && id != tunnel.id) *)
name_occupied(map, tunnel_id, name) ==
  \E k \in DOMAIN map : map[k].name = name /\ k # map[tunnel_id].id

(* the first block of name_tunnel: the record must exist, the name be free *)
name_tunnel_scan(map, tunnel_id, name) ==
  IF ~contains_key(map, tunnel_id) THEN TunnelNotRegistered(tunnel_id)
  ELSE IF name_occupied(map, tunnel_id, name) THEN NameOccupied(name)
  ELSE Ok

name_tunnel_assign_once(map, tunnel_id, name) ==
  IF map[tunnel_id].name = NoName
  THEN [map EXCEPT ![tunnel_id].name = name]
  ELSE map

(* the second block of name_tunnel: tunnel.name = Some(name) *)
name_tunnel_assign(map, tunnel_id, name) ==
  [map EXCEPT ![tunnel_id].name = name]

name_tunnel(map, tunnel_id, name) ==
  LET scan == name_tunnel_scan(map, tunnel_id, name)
  IN  IF scan.tag = "Ok"
      THEN [map |-> name_tunnel_assign(map, tunnel_id, name), ret |-> Ok]
      ELSE [map |-> map, ret |-> scan]

deregister_tunnel_keeps(map, tunnel_id) ==
  IF contains_key(map, tunnel_id)
  THEN [map |-> map, ret |-> Some(map[tunnel_id])]
  ELSE [map |-> map, ret |-> NotFound]

(* tunnels.remove(&tunnel_id).ok_or(()) *)
deregister_tunnel(map, tunnel_id) ==
  IF contains_key(map, tunnel_id)
  THEN [map |-> remove(map, tunnel_id), ret |-> Some(map[tunnel_id])]
  ELSE [map |-> map, ret |-> NotFound]

(* ============================ state ==================================== *)
VARIABLES
  tunnels,    \* InMemoryTunnelRegistry.tunnels: the map behind the mutex
  mutex,      \* holder of the tokio Mutex around the map, NoHolder when free
  op,         \* per caller: the registry call it is in, and how far it got
  rwlock,     \* per caller: the guard it holds on the RwLock of the
              \* SerializedTunnelRegistry: "none", "read" or "write"
  completed,  \* per id: "registered" once a register_tunnel(id) has returned
              \* Ok, "deregistered" once a deregister_tunnel(id) has returned
              \* its record since, "never" before both
  source,     \* tunnel_source: the tunnels it has yet to yield, in order
  shutdown,   \* shutdown_request_listener is cancelled
  pc,         \* per tunnel: where its tunnel_lifecycle future stands
  tid,        \* per tunnel: the id tunnel_id_generator.next() gave it
  tname,      \* per tunnel: the name authentication returned
  result,     \* per tunnel: what tunnel_lifecycle returned
  events,     \* per tunnel: what was sent on tunnel_connected/_authenticated
  deregs,     \* per tunnel: deregister_tunnel calls its lifecycle has made
  downlink,   \* per tunnel: "closed" (not taken), "open", "ended"
  streams,    \* per tunnel and slot: the sub-stream's handler future
  opened,     \* sub-streams the downlinks have yielded so far, over all tunnels
  observe,    \* keep each sub-stream's negotiation and service outcome
  services,   \* PresetServiceRegistry.services: the Vec behind the RwLock
  found,      \* the last find_service call: its request, result, Vec length
  target,     \* the TcpStreamTarget a client formats into a RouteAddress
  address,    \* the RouteAddress handed to TcpStreamService
  parsed,     \* addr.parse::<TcpStreamTarget>() of that address
  candidates, \* what TcpStreamService::resolve returned for the parsed target
  strong,     \* per tunnel object: the strong count of its Arc
  dropped,    \* the tunnel objects that have been destroyed
  handles,    \* per consumer: the tunnel handle it keeps, NoHandle if none
  stage,      \* per tunnel: how far its lifecycle got, and under which id
  channel,    \* tunnel_connected events the broadcast channel still holds
  sends,      \* tunnel_connected.send calls made so far, one per tunnel
  ring,       \* the values the broadcast channel retains, oldest first
  tail,       \* how many values the channel has stored since it was made
  rx,         \* per subscriber: its receiver's cursor, what had been sent
              \* when it subscribed, and how many events it was told it lost
  sendRet,    \* what the last send returned (the lifecycle discards it)
  fut,        \* per delegating future: where it is, its context, its id
  delmap,     \* DelegationSet.map: the delegations waiting, by id
  known,      \* the ids a dispatcher has been called with
  oneshot,    \* per delegating future: what its oneshot holds
  fulfilled,  \* per delegating future: the fulfill call that took its
              \* delegation out of the map
  readRet,    \* the last read_context call: its id and what it returned
  resolved,   \* per delegating future: what it resolved to
  rwWaiters,  \* the callers queued on the RwLock of the SerializedTunnelRegistry
  mutexWaiters, \* the callers queued on the Mutex of the InMemoryTunnelRegistry
  fcall,      \* per remote caller: the detach or fulfill call it is in
  deliveries, \* per delegating future: how often a result was sent to it
  rt,         \* the tokio runtime of the EventRunner: "running" or "shutdown"
  etask,      \* per fire_evented call: the event task it spawned
  monitors,   \* per fire_evented call: the monitor task it spawned
  reports     \* the calls of report_task_completion_callback, in order

regVars == <<mutex, op, completed, rwlock>>
lifeVars == <<pc, tid, tname, result, events, deregs>>
serveVars == <<downlink, streams, opened>>
daemonVars == <<source, shutdown, pc, tid, tname, result, events, deregs,
                downlink, streams, opened, observe>>
svcVars == <<services, found>>
tcpVars == <<target, address, parsed, candidates>>
arcVars == <<strong, dropped, handles, stage, channel>>
evtVars == <<sends, ring, tail, rx, sendRet>>
delVars == <<fut, delmap, known, oneshot, fulfilled, readRet, resolved>>
fifoVars == <<rwWaiters, mutexWaiters>>
fulVars == <<fcall, deliveries>>
runVars == <<rt, etask, monitors, reports>>
moreVars == <<fifoVars, fulVars, runVars>>
extVars == <<svcVars, tcpVars, arcVars, evtVars, delVars, moreVars>>
vars == <<tunnels, mutex, op, completed, rwlock, source, shutdown, pc, tid, tname,
          result, events, deregs, downlink, streams, opened, observe, extVars>>

Callers == Tunnels

IdleOp == [kind |-> "idle", id |-> 0, name |-> NoName, stage |-> "idle", ret |-> NoRet]

OpKinds == {"register", "name", "deregister", "lookup_by_id", "lookup_by_name"}

NoStream == [st |-> "absent", neg |-> "-", svc |-> "-", after |-> FALSE]

NoFind == [req |-> 0, ret |-> NoRet, len |-> 0]

(* PresetServiceRegistry::new: Vec::new() *)
SvcInit == services = <<>> /\ found = NoFind

(* no address has been built or received yet *)
TcpInit == target = NoRet /\ address = <<>> /\ parsed = NoRet /\ candidates = NoRet

(* every tunnel object is held once, by the lifecycle it was handed to *)
ArcInit ==
  /\ strong = [t \in 1..NumObjects |-> 1]
  /\ dropped = {}
  /\ handles = [c \in 1..NumConsumers |-> [tunnel |-> 0, from |-> "-", used |-> "-"]]
  /\ stage = [t \in 1..NumObjects |-> [st |-> "new", id |-> 0]]
  /\ channel = {}

(* event_channel(32).0: an empty channel, its first receiver dropped *)
EvtInit ==
  /\ sends = 0
  /\ ring = <<>>
  /\ tail = 0
  /\ rx = [s \in 1..NumSubscribers |-> [st |-> "none", next |-> 0, since |-> 0, lost |-> 0]]
  /\ sendRet = "-"

(* DelegationSet::new(): an empty map, nothing delegated yet *)
DelInit ==
  /\ fut = [d \in 1..NumDelegations |-> [pc |-> "idle", ctx |-> 0, id |-> 0]]
  /\ delmap = [k \in {} |-> [owner |-> 0, context |-> 0]]
  /\ known = {}
  /\ oneshot = [d \in 1..NumDelegations |->
                 [tag |-> "Pending", value |-> 0, err |-> "-", ctx |-> 0]]
  /\ fulfilled = [d \in 1..NumDelegations |->
                   [state |-> "-", json |-> [kind |-> "-", v |-> 0], sync |-> FALSE]]
  /\ readRet = [id |-> 0, ret |-> [tag |-> "-", ctx |-> 0]]
  /\ resolved = [d \in 1..NumDelegations |->
                  [tag |-> "Pending", value |-> 0, err |-> "-", ctx |-> 0]]

(* nobody waits for a lock of the registry *)
FifoInit == rwWaiters = <<>> /\ mutexWaiters = <<>>

(* the remote side has made no detach or fulfill call *)
FulInit ==
  /\ fcall = [k \in 1..NumFulfillers |->
               [pc |-> "idle", kind |-> "-", id |-> 0, state |-> "-",
                json |-> [kind |-> "-", v |-> 0],
                held |-> [owner |-> 0, context |-> 0], ret |-> "-"]]
  /\ deliveries = [d \in 1..NumDelegations |-> 0]

(* EventRunner::new over a running runtime: nothing fired yet *)
RunInit ==
  /\ rt = "running"
  /\ etask = [k \in 1..NumFires |-> [st |-> "none", id |-> 0, res |-> "-"]]
  /\ monitors = [k \in 1..NumFires |-> "none"]
  /\ reports = <<>>

ExtInit ==
  SvcInit /\ TcpInit /\ ArcInit /\ EvtInit /\ DelInit /\ FifoInit /\ FulInit /\ RunInit

(* InMemoryTunnelRegistry::new and ModularDaemon::new; `src` is what the    *)
(* tunnel source will yield and `obs` whether sub-stream outcomes are kept  *)
InitWith(src, obs) ==
  /\ tunnels = EmptyMap
  /\ mutex = NoHolder
  /\ op = [c \in Callers |-> IdleOp]
  /\ completed = [i \in TunnelIds |-> "never"]
  /\ rwlock = [c \in Callers |-> "none"]
  /\ source = src
  /\ shutdown = FALSE
  /\ pc = [t \in Tunnels |-> "pending"]
  /\ tid = [t \in Tunnels |-> 0]
  /\ tname = [t \in Tunnels |-> NoName]
  /\ result = [t \in Tunnels |-> NoRet]
  /\ events = [t \in Tunnels |-> <<>>]
  /\ deregs = [t \in Tunnels |-> 0]
  /\ downlink = [t \in Tunnels |-> "closed"]
  /\ streams = [t \in Tunnels |-> [s \in Slots |-> NoStream]]
  /\ opened = 0
  /\ observe = obs
  /\ ExtInit

AllTunnels == [i \in 1..NumTunnels |-> i]

(* the registry alone: no tunnel source is run *)
RegInit == InitWith(<<>>, FALSE)

(* the daemon over a source that yields every tunnel *)
Init == InitWith(AllTunnels, FALSE)

(* the daemon over a source that yields one tunnel, outcomes kept *)
ServeInit == InitWith(<<1>>, TRUE)

(* ------------- registry calls, one step per lock and block ------------- *)

MutexIgnored == TRUE

(* tunnels.lock().await resolves only while nobody holds the mutex *)
MutexAvailable == mutex = NoHolder

(* a caller's call gets the mutex: until then it has touched nothing, so   *)
(* the call and its lock().await are one step; caller c passes its own     *)
(* tunnel, c                                                               *)
Call(c) ==
  /\ op[c].stage = "idle"
  /\ MutexAvailable
  /\ mutex' = c
  /\ \E kind \in OpKinds, i \in TunnelIds, n \in TunnelNames :
       op' = [op EXCEPT ![c] =
                [kind |-> kind,
                 id |-> IF kind = "lookup_by_name" THEN 0 ELSE i,
                 name |-> IF kind \in {"name", "lookup_by_name"} THEN n ELSE NoName,
                 stage |-> "locked", ret |-> NoRet]]
  /\ UNCHANGED <<tunnels, completed, rwlock>>
  /\ UNCHANGED <<daemonVars, extVars>>

RegisterBody(c) ==
  /\ op[c].stage = "locked" /\ op[c].kind = "register"
  /\ LET r == register_tunnel(tunnels, op[c].id, c)
     IN  /\ tunnels' = r.map
         /\ op' = [op EXCEPT ![c].stage = "done", ![c].ret = r.ret]
  /\ UNCHANGED <<mutex, completed, rwlock>>
  /\ UNCHANGED <<daemonVars, extVars>>

NameScan(c) ==
  /\ op[c].stage = "locked" /\ op[c].kind = "name"
  /\ LET scan == name_tunnel_scan(tunnels, op[c].id, op[c].name)
     IN  op' = [op EXCEPT ![c].stage = IF scan.tag = "Ok" THEN "scanned" ELSE "done",
                          ![c].ret = IF scan.tag = "Ok" THEN NoRet ELSE scan]
  /\ UNCHANGED <<tunnels, mutex, completed, rwlock>>
  /\ UNCHANGED <<daemonVars, extVars>>

NameAssign(c) ==
  /\ op[c].stage = "scanned" /\ op[c].kind = "name"
  /\ tunnels' = name_tunnel_assign(tunnels, op[c].id, op[c].name)
  /\ op' = [op EXCEPT ![c].stage = "done", ![c].ret = Ok]
  /\ UNCHANGED <<mutex, completed, rwlock>>
  /\ UNCHANGED <<daemonVars, extVars>>

DeregisterBody(c) ==
  /\ op[c].stage = "locked" /\ op[c].kind = "deregister"
  /\ LET r == deregister_tunnel(tunnels, op[c].id)
     IN  /\ tunnels' = r.map
         /\ op' = [op EXCEPT ![c].stage = "done", ![c].ret = r.ret]
  /\ UNCHANGED <<mutex, completed, rwlock>>
  /\ UNCHANGED <<daemonVars, extVars>>

LookupBody(c) ==
  /\ op[c].stage = "locked" /\ op[c].kind \in {"lookup_by_id", "lookup_by_name"}
  /\ op' = [op EXCEPT ![c].stage = "done",
                      ![c].ret = IF op[c].kind = "lookup_by_id"
                                 THEN lookup_by_id(tunnels, op[c].id)
                                 ELSE lookup_by_name(tunnels, op[c].name)]
  /\ UNCHANGED <<tunnels, mutex, completed, rwlock>>
  /\ UNCHANGED <<daemonVars, extVars>>

ReturnHoldsWrapper(c) ==
  /\ op[c].stage = "done"
  /\ mutex' = IF mutex = c THEN NoHolder ELSE mutex
  /\ op' = [op EXCEPT ![c] = IdleOp]
  /\ UNCHANGED <<tunnels, rwlock, completed>>
  /\ UNCHANGED <<daemonVars, extVars>>

(* the call returns: the guard is dropped and the caller has the result;  *)
(* a call made through the wrapper drops the wrapper's guard as well       *)
Return(c) ==
  /\ op[c].stage = "done"
  /\ mutex' = IF mutex = c THEN NoHolder ELSE mutex
  /\ rwlock' = [rwlock EXCEPT ![c] = "none"]
  /\ completed' =
       IF op[c].kind = "register" /\ op[c].ret.tag = "Ok"
       THEN [completed EXCEPT ![op[c].id] = "registered"]
       ELSE IF op[c].kind = "deregister" /\ op[c].ret.tag = "Some"
       THEN [completed EXCEPT ![op[c].id] = "deregistered"]
       ELSE completed
  /\ op' = [op EXCEPT ![c] = IdleOp]
  /\ UNCHANGED tunnels
  /\ UNCHANGED <<daemonVars, extVars>>

RegNext ==
  \E c \in Callers :
    \/ Call(c)
    \/ RegisterBody(c)
    \/ NameScan(c)
    \/ NameAssign(c)
    \/ DeregisterBody(c)
    \/ LookupBody(c)
    \/ Return(c)

RegSpec == RegInit /\ [][RegNext]_vars

(* ---------------------- SerializedTunnelRegistry ----------------------- *)

Mutations == {"register", "name", "deregister"}

(* inner.read().await resolves while no caller holds the write guard *)
ReadAvailable == \A d \in Callers : rwlock[d] # "write"

WriteExcludesWritersOnly == \A d \in Callers : rwlock[d] # "write"

(* inner.write().await resolves while no caller holds any guard *)
WriteAvailable == \A d \in Callers : rwlock[d] = "none"

(* a caller's call through the wrapper gets the wrapper's guard: read for  *)
(* the lookups, write for register, name and deregister                    *)
WrapCall(c, kind) ==
  /\ op[c].stage = "idle"
  /\ IF kind \in Mutations THEN WriteAvailable ELSE ReadAvailable
  /\ rwlock' = [rwlock EXCEPT ![c] = IF kind \in Mutations THEN "write" ELSE "read"]
  /\ \E i \in IF kind = "lookup_by_name" THEN {0} ELSE TunnelIds,
        n \in IF kind \in {"name", "lookup_by_name"} THEN TunnelNames ELSE {NoName} :
       op' = [op EXCEPT ![c] =
                [kind |-> kind, id |-> i, name |-> n,
                 stage |-> "wrapped", ret |-> NoRet]]
  /\ UNCHANGED <<tunnels, mutex, completed>>
  /\ UNCHANGED <<daemonVars, extVars>>

(* lock.<call>(..).await: the inner registry's call gets the map's mutex *)
InnerLock(c) ==
  /\ op[c].stage = "wrapped"
  /\ MutexAvailable
  /\ mutex' = c
  /\ op' = [op EXCEPT ![c].stage = "locked"]
  /\ UNCHANGED <<tunnels, completed, rwlock>>
  /\ UNCHANGED <<daemonVars, extVars>>

SerNext ==
  \E c \in Callers :
    \/ \E kind \in OpKinds : WrapCall(c, kind)
    \/ InnerLock(c)
    \/ RegisterBody(c)
    \/ NameScan(c)
    \/ NameAssign(c)
    \/ DeregisterBody(c)
    \/ LookupBody(c)
    \/ Return(c)

(* every caller goes through one SerializedTunnelRegistry *)
SerSpec == RegInit /\ [][SerNext]_vars

(* ========================== ModularDaemon ============================== *)

(* the variants the match in handle_incoming_request_bistream tells apart *)
NegotiationErrors ==
  {"UnsupportedProtocolVersion", "ProtocolViolation", "ReadError", "WriteError",
   "Refused", "UnsupportedServiceVersion", "ApplicationError", "FatalError"}
NegotiationOutcomes == {"Ok"} \cup NegotiationErrors

ServiceErrors ==
  {"Refused", "UnexpectedEnd", "IllegalResponse", "AddressError",
   "DependencyFailure", "BacktraceDependencyFailure", "InternalFailure"}
ServiceResults == {"Ok"} \cup ServiceErrors

(* perform_authentication: a name, or one of the AuthenticationError kinds *)
AuthenticationErrors == {"Remote", "Handling", "FatalApplicationError"}

(* tokio::spawn(..).await: the task ran to its end, or was cancelled first *)
JoinOutcomes == {"completed", "cancelled"}

(* tunnel_id_generator.next(): a counter's next value, or, from a faulty    *)
(* generator, an id it has given out before                                *)
TunnelIDGenerator_next(given) ==
  {i \in TunnelIds : i \in given \/ \A j \in TunnelIds : j < i => j \in given}

(* names are opaque and only compared: the handler returns a name it has    *)
(* returned before or the first one it has not                             *)
AuthenticationOutcomes(given) ==
  [kind : {"Ok"},
   name : {n \in TunnelNames : n \in given \/ \A m \in TunnelNames : m < n => m \in given}]
    \cup [kind : AuthenticationErrors, name : {NoName}]

authenticate_tunnel_fatal_refuses(outcome) ==
  IF outcome.kind \in AuthenticationErrors THEN None ELSE Some(outcome.name)

(* authenticate_tunnel: Ok(Some(name)), Ok(None) or Err(fatal) *)
authenticate_tunnel(outcome) ==
  IF outcome.kind = "FatalApplicationError" THEN [tag |-> "FatalError"]
  ELSE IF outcome.kind \in {"Handling", "Remote"} THEN None
  ELSE Some(outcome.name)

daemon_register_tunnel_cancelled_ok(map, id, tunnel, join) ==
  IF join = "cancelled" THEN [map |-> map, ret |-> Ok]
  ELSE register_tunnel(map, id, tunnel)

(* ModularDaemon::register_tunnel: the registry call in a spawned task *)
daemon_register_tunnel(map, id, tunnel, join) ==
  IF join = "cancelled" THEN [map |-> map, ret |-> ApplicationError]
  ELSE register_tunnel(map, id, tunnel)

daemon_name_tunnel_cancelled_ok(map, id, tunnel_name, join) ==
  IF join = "cancelled" THEN [map |-> map, ret |-> Ok]
  ELSE name_tunnel(map, id, tunnel_name)

(* ModularDaemon::name_tunnel: the registry call in a spawned task *)
daemon_name_tunnel(map, id, tunnel_name, join) ==
  IF join = "cancelled" THEN [map |-> map, ret |-> ApplicationError]
  ELSE name_tunnel(map, id, tunnel_name)

bistream_violation_fatal(neg, cancelled) ==
  IF neg \in {"UnsupportedProtocolVersion", "ProtocolViolation"}
  THEN [tag |-> "UnsupportedProtocolVersion"]
  ELSE IF neg = "FatalError" THEN [tag |-> "FatalError"]
  ELSE IF neg = "Ok" /\ ~cancelled THEN [tag |-> "Handle"]
  ELSE Ok

bistream_hands_over_after_shutdown(neg, cancelled) ==
  IF neg = "UnsupportedProtocolVersion" THEN [tag |-> "UnsupportedProtocolVersion"]
  ELSE IF neg = "FatalError" THEN [tag |-> "FatalError"]
  ELSE IF neg = "Ok" THEN [tag |-> "Handle"]
  ELSE Ok

(* handle_incoming_request_bistream up to the call of service.handle:      *)
(* Err(..) ends the sub-stream with an error, Ok ends it without one, and  *)
(* Handle hands the negotiated link to the service                         *)
handle_incoming_request_bistream(neg, cancelled) ==
  IF neg = "UnsupportedProtocolVersion" THEN [tag |-> "UnsupportedProtocolVersion"]
  ELSE IF neg \in {"ProtocolViolation", "ReadError", "WriteError"} THEN Ok
  ELSE IF neg \in {"Refused", "UnsupportedServiceVersion", "ApplicationError"} THEN Ok
  ELSE IF neg = "FatalError" THEN [tag |-> "FatalError"]
  ELSE IF cancelled THEN Ok
  ELSE [tag |-> "Handle"]

service_error_fatal(svc) ==
  IF svc = "Ok" THEN Ok ELSE [tag |-> "FatalError"]

(* the match on service.handle(..).await: Err(e) => Ok(()), Ok(()) => Ok(()) *)
service_result(svc) == Ok

(* impl From<RequestProcessingError> for TunnelLifecycleError *)
lifecycle_error(e) ==
  IF e = "FatalError" THEN [tag |-> "FatalError", err |-> "FatalError"]
  ELSE [tag |-> "RequestProcessingError", err |-> e]

Event(kind, id, name) == <<kind, id, name>>

InFlightNegotiating(t) == {s \in Slots : streams[t][s].st = "negotiating"}

InFlightHandling(t) == {s \in Slots : streams[t][s].st = "handling"}

(* the handler futures try_for_each_concurrent still holds *)
InFlight(t) == {s \in Slots : streams[t][s].st \in {"negotiating", "handling"}}

(* what a slot records of an outcome *)
Kept(x) == IF observe THEN x ELSE "-"

Failed(stream) ==
  /\ stream.st = "finished"
  /\ \/ stream.neg \in NegotiationErrors
     \/ stream.svc \in ServiceErrors

KeepInFlight(ss) == ss

(* try_for_each_concurrent returns the first error: the stream and the     *)
(* handler futures still in flight are dropped                             *)
DropInFlight(ss) ==
  [s \in Slots |-> IF ss[s].st \in {"negotiating", "handling"}
                   THEN [ss[s] EXCEPT !.st = "dropped"] ELSE ss[s]]

(* ---------------------------- run -------------------------------------- *)

(* take_until(shutdown) lets the source yield; scan mints the id; the       *)
(* lifecycle future of the tunnel is started by for_each_concurrent         *)
Accept ==
  /\ source # <<>>
  /\ ~shutdown
  /\ LET t == Head(source)
     IN  /\ \E i \in TunnelIDGenerator_next({tid[u] : u \in Tunnels} \ {0}) :
              tid' = [tid EXCEPT ![t] = i]
         /\ pc' = [pc EXCEPT ![t] = "registering"]
  /\ source' = Tail(source)
  /\ UNCHANGED <<tunnels, shutdown, tname, result, events, deregs, observe>>
  /\ UNCHANGED serveVars
  /\ UNCHANGED <<regVars, extVars>>

(* the shutdown token is cancelled *)
Cancel ==
  /\ ~shutdown
  /\ shutdown' = TRUE
  /\ UNCHANGED <<tunnels, source, observe>>
  /\ UNCHANGED lifeVars
  /\ UNCHANGED serveVars
  /\ UNCHANGED <<regVars, extVars>>

(* ------------------------ tunnel_lifecycle ----------------------------- *)

registration_error_deregisters == "failing"

(* `.await?` on Self::register_tunnel: the error is returned at once *)
registration_error_returns == "dropped"

refusal_returns_err == "failing"

(* the None arm of the authentication match returns Ok(()) after its own   *)
(* deregister_tunnel call                                                  *)
refusal_returns == "done"

Register(t) ==
  /\ pc[t] = "registering"
  /\ \E join \in JoinOutcomes :
       LET r == daemon_register_tunnel(tunnels, tid[t], t, join)
       IN  /\ tunnels' = r.map
           /\ IF r.ret.tag = "Ok"
              THEN /\ events' = [events EXCEPT ![t] =
                                   Append(@, Event("connected", tid[t], NoName))]
                   /\ pc' = [pc EXCEPT ![t] = "authenticating"]
                   /\ UNCHANGED result
              ELSE /\ pc' = [pc EXCEPT ![t] = registration_error_returns]
                   /\ result' = [result EXCEPT ![t] =
                                   [tag |-> "RegistrationError", err |-> r.ret.tag]]
                   /\ UNCHANGED events
  /\ UNCHANGED <<source, shutdown, tid, tname, deregs, observe>>
  /\ UNCHANGED serveVars
  /\ UNCHANGED <<regVars, extVars>>

(* the Err arm of tunnel_lifecycle: deregister, then return the error *)
DeregisterFailed(t) ==
  /\ pc[t] = "failing"
  /\ tunnels' = deregister_tunnel(tunnels, tid[t]).map
  /\ deregs' = [deregs EXCEPT ![t] = @ + 1]
  /\ pc' = [pc EXCEPT ![t] = "done"]
  /\ UNCHANGED <<source, shutdown, tid, tname, result, events, observe>>
  /\ downlink' = [downlink EXCEPT ![t] = "closed"]
  /\ streams' = [streams EXCEPT ![t] = [s \in Slots |-> NoStream]]
  /\ UNCHANGED opened
  /\ UNCHANGED <<regVars, extVars>>

(* --------------------- registered_tunnel_lifecycle --------------------- *)

Authenticate(t) ==
  /\ pc[t] = "authenticating"
  /\ \E outcome \in AuthenticationOutcomes({tname[u] : u \in Tunnels}) :
       LET a == authenticate_tunnel(outcome)
       IN  IF a.tag = "Some"
           THEN /\ tname' = [tname EXCEPT ![t] = a.rec]
                /\ pc' = [pc EXCEPT ![t] = "naming"]
                /\ UNCHANGED result
           ELSE IF a.tag = "None"
           THEN /\ pc' = [pc EXCEPT ![t] = "refused"]
                /\ UNCHANGED <<tname, result>>
           ELSE /\ pc' = [pc EXCEPT ![t] = "failing"]
                /\ result' = [result EXCEPT ![t] =
                                [tag |-> "FatalError", err |-> "Authentication"]]
                /\ UNCHANGED tname
  /\ UNCHANGED <<tunnels, source, shutdown, tid, events, deregs, observe>>
  /\ UNCHANGED serveVars
  /\ UNCHANGED <<regVars, extVars>>

(* the None arm: deregister and return Ok(()) *)
DeregisterRefused(t) ==
  /\ pc[t] = "refused"
  /\ tunnels' = deregister_tunnel(tunnels, tid[t]).map
  /\ deregs' = [deregs EXCEPT ![t] = @ + 1]
  /\ pc' = [pc EXCEPT ![t] = refusal_returns]
  /\ result' = [result EXCEPT ![t] = Ok]
  /\ UNCHANGED <<source, shutdown, tid, tname, events, observe>>
  /\ UNCHANGED serveVars
  /\ UNCHANGED <<regVars, extVars>>

Name(t) ==
  /\ pc[t] = "naming"
  /\ \E join \in JoinOutcomes :
       LET r == daemon_name_tunnel(tunnels, tid[t], tname[t], join)
       IN  /\ tunnels' = r.map
           /\ IF r.ret.tag = "Ok"
              THEN /\ events' = [events EXCEPT ![t] =
                                   Append(@, Event("authenticated", tid[t], tname[t]))]
                   /\ pc' = [pc EXCEPT ![t] = "downlink"]
                   /\ UNCHANGED result
              ELSE /\ pc' = [pc EXCEPT ![t] = "failing"]
                   /\ result' = [result EXCEPT ![t] =
                                   [tag |-> "RegistryNamingError", err |-> r.ret.tag]]
                   /\ UNCHANGED events
  /\ UNCHANGED <<source, shutdown, tid, tname, deregs, observe>>
  /\ UNCHANGED serveVars
  /\ UNCHANGED <<regVars, extVars>>

no_downlink_graceful == Ok

(* .ok_or(TunnelLifecycleError::RequestProcessingError(                    *)
(*   RequestProcessingError::TunnelError(TunnelError::ConnectionClosed)))  *)
no_downlink == [tag |-> "RequestProcessingError", err |-> "TunnelError"]

(* tunnel.downlink().await: the downlink, or None => ConnectionClosed *)
TakeDownlink(t) ==
  /\ pc[t] = "downlink"
  /\ \E present \in BOOLEAN :
       IF present
       THEN /\ downlink' = [downlink EXCEPT ![t] = "open"]
            /\ pc' = [pc EXCEPT ![t] = "serving"]
            /\ UNCHANGED result
       ELSE /\ pc' = [pc EXCEPT ![t] = "failing"]
            /\ result' = [result EXCEPT ![t] = no_downlink]
            /\ UNCHANGED downlink
  /\ UNCHANGED <<tunnels, source, shutdown, tid, tname, events, deregs, streams, opened, observe>>
  /\ UNCHANGED <<regVars, extVars>>

(* "Deregister closed tunnels after graceful exit" *)
DeregisterGraceful(t) ==
  /\ pc[t] = "closing"
  /\ tunnels' = deregister_tunnel(tunnels, tid[t]).map
  /\ deregs' = [deregs EXCEPT ![t] = @ + 1]
  /\ pc' = [pc EXCEPT ![t] = "done"]
  /\ result' = [result EXCEPT ![t] = Ok]
  /\ UNCHANGED <<source, shutdown, tid, tname, events, observe>>
  /\ downlink' = [downlink EXCEPT ![t] = "closed"]
  /\ streams' = [streams EXCEPT ![t] = [s \in Slots |-> NoStream]]
  /\ UNCHANGED opened
  /\ UNCHANGED <<regVars, extVars>>

(* ---------------------- handle_incoming_requests ----------------------- *)

AcceptNoSiblingFailed(t) ==
  /\ pc[t] = "serving"
  /\ downlink[t] = "open"
  /\ ~shutdown
  /\ \A s \in Slots : ~Failed(streams[t][s])

CanAcceptAfterShutdown(t) ==
  /\ pc[t] = "serving"
  /\ downlink[t] = "open"

(* the downlink is polled for its next item: take_until(shutdown) *)
CanAccept(t) ==
  /\ pc[t] = "serving"
  /\ downlink[t] = "open"
  /\ ~shutdown

(* the downlink yields Ok(link): its handler future is started *)
AcceptSubstream(t) ==
  /\ CanAccept(t)
  /\ opened < MaxSubstreams
  /\ opened' = opened + 1
  /\ \E s \in Slots :
       /\ streams[t][s].st = "absent"
       /\ \A r \in Slots : r < s => streams[t][r].st # "absent"
       /\ streams' = [streams EXCEPT ![t][s] =
            [st |-> "negotiating", neg |-> "-", svc |-> "-",
             after |-> \E r \in Slots : Failed(streams[t][r])]]
  /\ UNCHANGED <<tunnels, source, shutdown, downlink, observe>>
  /\ UNCHANGED lifeVars
  /\ UNCHANGED <<regVars, extVars>>

(* the downlink yields Err(e): try_for_each_concurrent returns it *)
DownlinkError(t) ==
  /\ CanAccept(t)
  /\ downlink' = [downlink EXCEPT ![t] = "ended"]
  /\ streams' = [streams EXCEPT ![t] = DropInFlight(@)]
  /\ pc' = [pc EXCEPT ![t] = "failing"]
  /\ result' = [result EXCEPT ![t] = lifecycle_error("TunnelError")]
  /\ UNCHANGED <<tunnels, source, shutdown, tid, tname, events, deregs, opened, observe>>
  /\ UNCHANGED <<regVars, extVars>>

(* the downlink yields None *)
DownlinkEnd(t) ==
  /\ CanAccept(t)
  /\ downlink' = [downlink EXCEPT ![t] = "ended"]
  /\ UNCHANGED <<tunnels, source, shutdown, streams, opened, observe>>
  /\ UNCHANGED lifeVars
  /\ UNCHANGED <<regVars, extVars>>

(* negotiator.negotiate(link, tunnel_id) returns in one handler future *)
Negotiate(t, s) ==
  /\ pc[t] = "serving"
  /\ streams[t][s].st = "negotiating"
  /\ \E neg \in NegotiationOutcomes :
       LET r == handle_incoming_request_bistream(neg, shutdown)
       IN  IF r.tag = "Handle"
           THEN /\ streams' = [streams EXCEPT ![t][s].st = "handling",
                                              ![t][s].neg = Kept(neg)]
                /\ UNCHANGED <<pc, result, downlink>>
           ELSE IF r.tag = "Ok"
           THEN /\ streams' = [streams EXCEPT ![t][s].st = "finished",
                                              ![t][s].neg = Kept(neg)]
                /\ UNCHANGED <<pc, result, downlink>>
           ELSE /\ streams' = [streams EXCEPT ![t] =
                     DropInFlight([@ EXCEPT ![s].st = "finished",
                                            ![s].neg = Kept(neg)])]
                /\ downlink' = [downlink EXCEPT ![t] = "ended"]
                /\ pc' = [pc EXCEPT ![t] = "failing"]
                /\ result' = [result EXCEPT ![t] = lifecycle_error(r.tag)]
  /\ UNCHANGED <<tunnels, source, shutdown, tid, tname, events, deregs, opened, observe>>
  /\ UNCHANGED <<regVars, extVars>>

(* service.handle(route_addr, link, tunnel_id) returns *)
ServiceHandle(t, s) ==
  /\ pc[t] = "serving"
  /\ streams[t][s].st = "handling"
  /\ \E svc \in ServiceResults :
       LET r == service_result(svc)
       IN  IF r.tag = "Ok"
           THEN /\ streams' = [streams EXCEPT ![t][s].st = "finished",
                                              ![t][s].svc = Kept(svc)]
                /\ UNCHANGED <<pc, result, downlink>>
           ELSE /\ streams' = [streams EXCEPT ![t] =
                     DropInFlight([@ EXCEPT ![s].st = "finished",
                                            ![s].svc = Kept(svc)])]
                /\ downlink' = [downlink EXCEPT ![t] = "ended"]
                /\ pc' = [pc EXCEPT ![t] = "failing"]
                /\ result' = [result EXCEPT ![t] = lifecycle_error(r.tag)]
  /\ UNCHANGED <<tunnels, source, shutdown, tid, tname, events, deregs, opened, observe>>
  /\ UNCHANGED <<regVars, extVars>>

(* the stream has ended and every handler future has returned Ok *)
ServingEnd(t) ==
  /\ pc[t] = "serving"
  /\ downlink[t] = "ended" \/ shutdown
  /\ InFlight(t) = {}
  /\ pc' = [pc EXCEPT ![t] = "closing"]
  /\ downlink' = [downlink EXCEPT ![t] = "ended"]
  /\ UNCHANGED <<tunnels, source, shutdown, tid, tname, result, events, deregs,
                 streams, opened, observe>>
  /\ UNCHANGED <<regVars, extVars>>

Lifecycle(t) ==
  \/ Register(t)
  \/ Authenticate(t)
  \/ DeregisterRefused(t)
  \/ Name(t)
  \/ TakeDownlink(t)
  \/ AcceptSubstream(t)
  \/ DownlinkError(t)
  \/ DownlinkEnd(t)
  \/ \E s \in Slots : Negotiate(t, s)
  \/ \E s \in Slots : ServiceHandle(t, s)
  \/ ServingEnd(t)
  \/ DeregisterGraceful(t)
  \/ DeregisterFailed(t)

Next ==
  \/ Accept
  \/ Cancel
  \/ \E t \in Tunnels : Lifecycle(t)

Spec == Init /\ [][Next]_vars

ServeSpec == ServeInit /\ [][Next]_vars

(* the JoinHandle returned by run: take_until has ended the source stream   *)
(* (or the source is exhausted) and for_each_concurrent holds no lifecycle  *)
(* future any more                                                          *)
run_resolved ==
  /\ shutdown \/ source = <<>>
  /\ \A t \in Tunnels : pc[t] \in {"pending", "done", "dropped"}

(* what the runtime and the hypothesis on Service::handle guarantee: a      *)
(* lifecycle future that can take its next step is polled; authentication   *)
(* is handed the shutdown token and returns; a running Service::handle      *)
(* returns. negotiator.negotiate(link, tunnel_id) is not handed the token   *)
(* and waits for the peer: nothing makes it return.                         *)
LifecycleFairness ==
  \A t \in Tunnels :
    /\ WF_vars(Register(t))
    /\ WF_vars(Authenticate(t))
    /\ WF_vars(DeregisterRefused(t))
    /\ WF_vars(Name(t))
    /\ WF_vars(TakeDownlink(t))
    /\ WF_vars(ServingEnd(t))
    /\ WF_vars(DeregisterGraceful(t))
    /\ WF_vars(DeregisterFailed(t))
    /\ \A s \in Slots : WF_vars(ServiceHandle(t, s))

LiveSpec == Init /\ [][Next]_vars /\ LifecycleFairness

(* ====================== PresetServiceRegistry ========================== *)
(* A service is known by its accepts predicate: the set of requests, each  *)
(* an (address, tunnel id) pair, for which accepts returns true. The Vec   *)
(* holds services in the order of the add_service_blocking calls.          *)
Services == SUBSET Requests

accepts(service, req) == req \in service

(* services.iter().find(|s| s.accepts(addr, tunnel_id)): the scan goes     *)
(* from the front and stops at the first service that accepts; the result  *)
(* is the position of the Arc it clones                                    *)
RECURSIVE find(_, _, _)
find(vec, req, k) ==
  IF k > Len(vec) THEN None
  ELSE IF accepts(vec[k], req) THEN Some(k)
  ELSE find(vec, req, k + 1)

find_service_last(vec, req) ==
  LET hits == {k \in 1..Len(vec) : accepts(vec[k], req)}
  IN  IF hits = {} THEN None
      ELSE Some(CHOOSE k \in hits : \A j \in hits : j <= k)

find_service(vec, req) == find(vec, req, 1)

(* everything outside the service registry *)
svcFrame == UNCHANGED <<tunnels, regVars, daemonVars, tcpVars, arcVars, evtVars, delVars,
                        moreVars>>

add_service_blocking(service) ==
  /\ Len(services) < MaxServices
  /\ services' = Append(services, service)
  /\ UNCHANGED found
  /\ svcFrame

FindService(req) ==
  /\ found' = [req |-> req, ret |-> find_service(services, req), len |-> Len(services)]
  /\ UNCHANGED services
  /\ svcFrame

SvcNext ==
  \/ \E service \in Services : add_service_blocking(service)
  \/ \E req \in Requests : FindService(req)

SvcSpec == RegInit /\ [][SvcNext]_vars

(* ============================== claims ================================= *)

InCriticalSection(c) == op[c].stage \in {"locked", "scanned", "done"}

(* C1: in every state reached by interleaved register/name/deregister      *)
(* calls, no two live records share an id or a name; the caller that is in  *)
(* a call's body holds the mutex alone, and between the scan of name_tunnel *)
(* and its assignment the scan's verdict still holds of the map.            *)
C1_UniqueIdsAndNames ==
  /\ \A k \in DOMAIN tunnels : tunnels[k].id = k
  /\ \A j, k \in DOMAIN tunnels :
       j # k => /\ tunnels[j].id # tunnels[k].id
                /\ tunnels[j].name # NoName => tunnels[j].name # tunnels[k].name
  /\ \A c \in Callers : InCriticalSection(c) => mutex = c
  /\ \A c \in Callers :
       op[c].stage = "scanned" =>
         name_tunnel_scan(tunnels, op[c].id, op[c].name).tag = "Ok"

(* two tunnels are registered, one is named, and a name_tunnel for the      *)
(* other has passed its scan and holds the mutex, about to assign           *)
C1_Witness ==
  \E c \in Callers :
    /\ op[c].kind = "name" /\ op[c].stage = "scanned" /\ mutex = c
    /\ \E k \in DOMAIN tunnels :
         k # op[c].id /\ tunnels[k].name # NoName /\ tunnels[k].name # op[c].name

(* C3: lookup_by_id(id) returns the record of id exactly when a            *)
(* register_tunnel(id) has returned Ok and no deregister_tunnel(id) has     *)
(* returned its record since, and None otherwise; lookup_by_name returns    *)
(* only such records; whenever the mutex is free the map holds exactly the  *)
(* ids in that condition.                                                   *)
C3_RegisterBeforeVisible ==
  /\ \A c \in Callers :
       op[c].stage = "done" /\ op[c].kind = "lookup_by_id" =>
         IF completed[op[c].id] = "registered"
         THEN op[c].ret.tag = "Some" /\ op[c].ret.rec.id = op[c].id
         ELSE op[c].ret.tag = "None"
  /\ \A c \in Callers :
       op[c].stage = "done" /\ op[c].kind = "lookup_by_name" /\ op[c].ret.tag = "Some" =>
         completed[op[c].ret.rec.id] = "registered"
  /\ mutex = NoHolder =>
       \A i \in TunnelIds : (i \in DOMAIN tunnels) = (completed[i] = "registered")

(* a lookup_by_id(id) made after deregister_tunnel(id) returned found       *)
(* nothing, while the other id is registered and visible                    *)
C3_Witness ==
  \E c \in Callers :
    /\ op[c].kind = "lookup_by_id" /\ op[c].stage = "done"
    /\ op[c].ret.tag = "None"
    /\ completed[op[c].id] = "deregistered"
    /\ \E i \in TunnelIds : completed[i] = "registered"

(* C4: register_tunnel on an occupied id returns IdOccupied(id) and leaves  *)
(* the map as it was; on a free id it inserts {id, name: None, tunnel} and  *)
(* returns Ok, the other records untouched.                                 *)
C4_RegisterOccupied ==
  [][\A c \in Callers :
       op[c].kind = "register" /\ op[c].stage = "locked" /\ op'[c].stage = "done" =>
         IF op[c].id \in DOMAIN tunnels
         THEN /\ op'[c].ret.tag = "IdOccupied"
              /\ op'[c].ret.id = op[c].id
              /\ tunnels' = tunnels
         ELSE /\ op'[c].ret.tag = "Ok"
              /\ DOMAIN tunnels' = DOMAIN tunnels \cup {op[c].id}
              /\ tunnels'[op[c].id] = TunnelRecord(op[c].id, NoName, c)
              /\ \A k \in DOMAIN tunnels : tunnels'[k] = tunnels[k]]_vars

(* a register_tunnel was refused with IdOccupied and the record it met,     *)
(* another caller's tunnel with a name, is still in the map                 *)
C4_Witness ==
  \E c \in Callers :
    /\ op[c].kind = "register" /\ op[c].stage = "done"
    /\ op[c].ret.tag = "IdOccupied"
    /\ op[c].id \in DOMAIN tunnels
    /\ tunnels[op[c].id].tunnel # c
    /\ tunnels[op[c].id].name # NoName

(* C6: name_tunnel(id, name) returns TunnelNotRegistered(id) when the map   *)
(* has no record for id, NameOccupied(name) when a record of another id     *)
(* carries name, both without changing the map; otherwise it sets the       *)
(* record's name to Some(name), changes nothing else and returns Ok.        *)
C6_NameTunnelResults ==
  [][\A c \in Callers :
       /\ op[c].kind = "name" /\ op[c].stage = "locked" /\ op'[c].stage # "locked" =>
            /\ tunnels' = tunnels
            /\ IF op[c].id \notin DOMAIN tunnels
               THEN /\ op'[c].stage = "done"
                    /\ op'[c].ret.tag = "TunnelNotRegistered"
                    /\ op'[c].ret.id = op[c].id
               ELSE IF \E k \in DOMAIN tunnels : k # op[c].id /\ tunnels[k].name = op[c].name
               THEN /\ op'[c].stage = "done"
                    /\ op'[c].ret.tag = "NameOccupied"
                    /\ op'[c].ret.name = op[c].name
               ELSE op'[c].stage = "scanned"
       /\ op[c].kind = "name" /\ op[c].stage = "scanned" /\ op'[c].stage # "scanned" =>
            /\ op'[c].stage = "done"
            /\ op'[c].ret.tag = "Ok"
            /\ DOMAIN tunnels' = DOMAIN tunnels
            /\ tunnels'[op[c].id] = [tunnels[op[c].id] EXCEPT !.name = op[c].name]
            /\ \A k \in DOMAIN tunnels : k # op[c].id => tunnels'[k] = tunnels[k]]_vars

(* a name_tunnel on a registered id was refused with NameOccupied: another  *)
(* record carries the name and the caller's record has none                 *)
C6_Witness ==
  \E c \in Callers :
    /\ op[c].kind = "name" /\ op[c].stage = "done"
    /\ op[c].ret.tag = "NameOccupied"
    /\ op[c].id \in DOMAIN tunnels
    /\ tunnels[op[c].id].name = NoName
    /\ \E k \in DOMAIN tunnels : k # op[c].id /\ tunnels[k].name = op[c].name

Terminal(t) == pc[t] \in {"done", "dropped"}

(* register_tunnel returned Ok in the lifecycle of t: tunnel_connected was sent *)
Registered(t) == Len(events[t]) >= 1

Authenticated(t) == \E i \in 1..Len(events[t]) : events[t][i][1] = "authenticated"

(* C2: a lifecycle never calls deregister_tunnel twice, calls it only as    *)
(* its last act, and when it has ended it has called it exactly once if its *)
(* register_tunnel returned Ok (whatever the exit path) and never if not.   *)
C2_ExactlyOneDeregister ==
  \A t \in Tunnels :
    /\ deregs[t] <= 1
    /\ ~Terminal(t) => deregs[t] = 0
    /\ Terminal(t) => deregs[t] = IF Registered(t) THEN 1 ELSE 0
    /\ pc[t] \in {"authenticating", "refused", "naming", "downlink", "serving",
                  "closing", "failing", "done"} => Registered(t)

(* one lifecycle ended gracefully after serving, the other on a naming      *)
(* error; each made its one deregister_tunnel call                          *)
C2_Witness ==
  \E t, u \in Tunnels :
    /\ pc[t] = "done" /\ result[t].tag = "Ok" /\ Authenticated(t) /\ deregs[t] = 1
    /\ pc[u] = "done" /\ result[u].tag = "RegistryNamingError" /\ deregs[u] = 1

(* C5: a lifecycle whose register_tunnel failed has ended: it sent no       *)
(* event, was not authenticated or named, took no downlink and called       *)
(* deregister_tunnel never; the failing step and every later step of that   *)
(* lifecycle leave the registry as it was.                                  *)
C5_FailedRegistrationTouchesNothing ==
  [][\A t \in Tunnels :
       result'[t].tag = "RegistrationError" =>
         /\ pc'[t] = "dropped"
         /\ events'[t] = <<>>
         /\ deregs'[t] = 0
         /\ tname'[t] = NoName
         /\ downlink'[t] = "closed"
         /\ pc[t] = "registering" => tunnels' = tunnels
         /\ pc[t] = "registering" =>
              result'[t].err \in {"IdOccupied", "NameOccupied", "ApplicationError"}]_vars

(* the id of a dropped lifecycle is still held by the other tunnel's        *)
(* record, which has been named meanwhile                                   *)
C5_Witness ==
  \E t \in Tunnels :
    /\ pc[t] = "dropped"
    /\ result[t].tag = "RegistrationError" /\ result[t].err = "IdOccupied"
    /\ tid[t] \in DOMAIN tunnels
    /\ tunnels[tid[t]].tunnel # t
    /\ tunnels[tid[t]].name # NoName

NameCollision(t) ==
  /\ pc[t] = "naming"
  /\ \E k \in DOMAIN tunnels : k # tid[t] /\ tunnels[k].name = tname[t]

(* C7: when a tunnel is to be named with a name another record carries,     *)
(* name_tunnel returns NameOccupied(name) and changes nothing; the          *)
(* lifecycle sends no tunnel_authenticated, fails with a naming error and   *)
(* then deregisters its own id only: every other record, and what           *)
(* lookup_by_id and lookup_by_name return for it, stay as they were.        *)
C7_NameCollision ==
  [][\A t \in Tunnels :
       /\ NameCollision(t) =>
            /\ name_tunnel(tunnels, tid[t], tname[t]).ret.tag = "NameOccupied"
            /\ name_tunnel(tunnels, tid[t], tname[t]).ret.name = tname[t]
            /\ name_tunnel(tunnels, tid[t], tname[t]).map = tunnels
       /\ NameCollision(t) /\ pc'[t] # "naming" =>
            /\ pc'[t] = "failing"
            /\ result'[t].tag = "RegistryNamingError"
            /\ result'[t].err \in {"NameOccupied", "ApplicationError"}
            /\ events'[t] = events[t]
            /\ tunnels' = tunnels
       /\ result[t].tag = "RegistryNamingError" =>
            /\ ~Authenticated(t)
            /\ pc[t] \in {"failing", "done"}
       /\ result[t].tag = "RegistryNamingError" /\ pc[t] = "failing" /\ pc'[t] # "failing" =>
            /\ pc'[t] = "done"
            /\ deregs'[t] = 1
            /\ tid[t] \notin DOMAIN tunnels'
            /\ \A k \in DOMAIN tunnels :
                 k # tid[t] =>
                   /\ lookup_by_id(tunnels', k) = Some(tunnels[k])
                   /\ tunnels[k].name # NoName =>
                        lookup_by_name(tunnels', tunnels[k].name) = Some(tunnels[k])]_vars

(* B has been refused the name and is deregistered; A still holds the name  *)
(* and both lookups return A                                                *)
C7_Witness ==
  \E a, b \in Tunnels :
    /\ a # b
    /\ pc[b] = "done"
    /\ result[b].tag = "RegistryNamingError" /\ result[b].err = "NameOccupied"
    /\ deregs[b] = 1 /\ ~Authenticated(b)
    /\ tid[b] \notin DOMAIN tunnels
    /\ lookup_by_id(tunnels, tid[a]) = Some(TunnelRecord(tid[a], tname[b], a))
    /\ lookup_by_name(tunnels, tname[b]) = Some(TunnelRecord(tid[a], tname[b], a))

(* ---------------------------- serving ---------------------------------- *)

Finishes(t, s) ==
  /\ streams[t][s].st \in {"negotiating", "handling"}
  /\ streams'[t][s].st = "finished"

NonFatalFailure(stream) ==
  \/ stream.neg \in NegotiationErrors \ {"FatalError", "UnsupportedProtocolVersion"}
  \/ stream.svc \in ServiceErrors

HasFreeSlot(t) ==
  /\ \E s \in Slots : streams[t][s].st = "absent"
  /\ opened < MaxSubstreams

(* C9: the step in which a sub-stream ends with a non-fatal negotiation     *)
(* error or with a ServiceError leaves the tunnel serving and registered    *)
(* and every sibling sub-stream as it was; and a serving tunnel whose       *)
(* downlink is open accepts the next sub-stream whenever no shutdown was    *)
(* requested, whatever its earlier sub-streams ended with.                  *)
C9_SubstreamIndependence ==
  /\ [](\A t \in Tunnels :
          pc[t] = "serving" /\ downlink[t] = "open" /\ ~shutdown /\ HasFreeSlot(t)
            => ENABLED AcceptSubstream(t))
  /\ [][\A t \in Tunnels : \A s \in Slots :
          Finishes(t, s) /\ NonFatalFailure(streams'[t][s]) =>
            /\ pc[t] = "serving" /\ pc'[t] = "serving"
            /\ downlink'[t] = downlink[t]
            /\ result'[t] = result[t]
            /\ tid[t] \in DOMAIN tunnels
            /\ tunnels' = tunnels
            /\ \A r \in Slots : r # s => streams'[t][r] = streams[t][r]]_vars

(* the first sub-stream was refused in negotiation; the second was accepted *)
(* after that and is being handled by its service; the tunnel is serving    *)
C9_Witness ==
  \E t \in Tunnels :
    /\ pc[t] = "serving"
    /\ tid[t] \in DOMAIN tunnels
    /\ streams[t][1].st = "finished" /\ streams[t][1].neg = "Refused"
    /\ streams[t][2].st = "handling" /\ streams[t][2].after

(* C10: a sub-stream handler that returns ends the serving of its tunnel    *)
(* exactly when its negotiation ended with FatalError or                    *)
(* UnsupportedProtocolVersion; after every other negotiation result and     *)
(* every result of Service::handle the tunnel is still serving.             *)
C10_OnlyFatalEndsServing ==
  [][\A t \in Tunnels : \A s \in Slots :
       Finishes(t, s) =>
         /\ pc[t] = "serving"
         /\ IF streams'[t][s].neg \in {"FatalError", "UnsupportedProtocolVersion"}
            THEN /\ pc'[t] = "failing"
                 /\ result'[t].err = streams'[t][s].neg
                 /\ result'[t].tag = IF streams'[t][s].neg = "FatalError"
                                     THEN "FatalError" ELSE "RequestProcessingError"
            ELSE /\ pc'[t] = "serving"
                 /\ result'[t] = result[t]
         /\ streams'[t][s].neg \in NegotiationOutcomes
         /\ streams'[t][s].svc \in ServiceResults \cup {"-"}]_vars

(* a service error was absorbed on one sub-stream, then the sibling's       *)
(* negotiation ended with UnsupportedProtocolVersion and serving ended      *)
C10_Witness ==
  \E t \in Tunnels :
    /\ pc[t] = "failing"
    /\ result[t].tag = "RequestProcessingError"
    /\ result[t].err = "UnsupportedProtocolVersion"
    /\ streams[t][1].st = "finished" /\ streams[t][1].svc = "DependencyFailure"
    /\ streams[t][2].st = "finished" /\ streams[t][2].neg = "UnsupportedProtocolVersion"

(* C11: once the shutdown token is cancelled, no tunnel is taken from the   *)
(* source (none leaves "pending", no id is minted) and no downlink yields   *)
(* a sub-stream: no slot enters negotiation and `opened` stays.             *)
C11_NothingAcceptedAfterShutdown ==
  [][shutdown =>
       /\ source' = source
       /\ tid' = tid
       /\ \A t \in Tunnels : pc[t] = "pending" => pc'[t] = "pending"
       /\ opened' = opened
       /\ \A t \in Tunnels : \A s \in Slots :
            streams'[t][s].st = "negotiating" => streams[t][s].st = "negotiating"]_vars

(* after cancellation a tunnel is still waiting in the source and another   *)
(* is serving on an open downlink with a handler slot free                  *)
C11_Witness ==
  /\ shutdown
  /\ source # <<>>
  /\ \E t \in Tunnels :
       /\ pc[t] = "serving"
       /\ downlink[t] = "open"
       /\ opened < MaxSubstreams
       /\ \E s \in Slots : streams[t][s].st = "absent"

C13_ShutdownLiveness ==
  /\ \A t \in Tunnels :
       (shutdown /\ pc[t] = "serving") ~> (pc[t] = "done" /\ deregs[t] = 1)
  /\ (shutdown /\ \E t \in Tunnels : pc[t] = "serving")
        ~> (run_resolved /\ tunnels = EmptyMap)

(* C14: the events of one tunnel are sent in lifecycle order.               *)
(* tunnel_connected(id) is sent by the step in which register_tunnel(id)    *)
(* returns Ok, so before authentication; tunnel_authenticated(id, name) is  *)
(* sent by the step in which name_tunnel(id, name) returns Ok, after        *)
(* tunnel_connected(id), at most once, and the registry then holds the      *)
(* record id under that name.                                               *)
C14_EventsInLifecycleOrder ==
  /\ [](\A t \in Tunnels :
          /\ \/ events[t] = <<>>
             \/ events[t] = <<Event("connected", tid[t], NoName)>>
             \/ events[t] = <<Event("connected", tid[t], NoName),
                              Event("authenticated", tid[t], tname[t])>>
          /\ pc[t] \in {"pending", "registering", "dropped"} => events[t] = <<>>
          /\ pc[t] \in {"authenticating", "refused", "naming"} => Len(events[t]) = 1)
  /\ [][\A t \in Tunnels :
          /\ (Len(events[t]) = 0 /\ Len(events'[t]) > 0) =>
                /\ Len(events'[t]) = 1
                /\ pc[t] = "registering" /\ pc'[t] = "authenticating"
                /\ ~contains_key(tunnels, tid[t])
                /\ contains_key(tunnels', tid[t])
                /\ tunnels'[tid[t]].tunnel = t
          /\ (Len(events[t]) = 1 /\ Len(events'[t]) > 1) =>
                /\ Len(events'[t]) = 2
                /\ pc[t] = "naming" /\ pc'[t] = "downlink"
                /\ contains_key(tunnels', tid[t])
                /\ tunnels'[tid[t]].tunnel = t
                /\ tunnels'[tid[t]].name = tname[t]
                /\ tname[t] # NoName
          /\ Len(events'[t]) >= Len(events[t])]_vars

(* both tunnels have sent both events and both records are in the registry  *)
(* under the names sent                                                     *)
C14_Witness ==
  \A t \in Tunnels :
     /\ Len(events[t]) = 2
     /\ pc[t] = "serving"
     /\ contains_key(tunnels, tid[t])
     /\ tunnels[tid[t]].name = events[t][2][3]

(* C15: a tunnel that ends after its registration has had                   *)
(* tunnel_disconnected(id, name?) sent as its last event; on the happy path *)
(* its events are connected(id), authenticated(id, name),                   *)
(* disconnected(id, name) in this order.                                    *)
C15_DisconnectedOnTerminal ==
  \A t \in Tunnels :
    (pc[t] = "done" /\ Registered(t)) =>
       /\ events[t][Len(events[t])][1] = "disconnected"
       /\ events[t][Len(events[t])][2] = tid[t]
       /\ (result[t] = Ok /\ Authenticated(t)) =>
             events[t] = <<Event("connected", tid[t], NoName),
                           Event("authenticated", tid[t], tname[t]),
                           Event("disconnected", tid[t], tname[t])>>

ReturnedFatal(t) == pc[t] = "done" /\ result[t].tag = "FatalError"

ReturnedNonFatal(t) ==
  /\ pc[t] \in {"done", "dropped"}
  /\ result[t].tag \in {"RegistrationError", "RegistryNamingError",
                        "RequestProcessingError"}

(* C16: once a tunnel lifecycle has returned FatalError the future of run   *)
(* has ended: no tunnel is taken from the source and no lifecycle takes a   *)
(* further step; after a lifecycle has returned a non-fatal error the       *)
(* daemon still takes the next tunnel from the source.                      *)
C16_FatalErrorEndsRun ==
  /\ []((/\ \E t \in Tunnels : ReturnedNonFatal(t)
         /\ \A t \in Tunnels : ~ReturnedFatal(t)
         /\ source # <<>>
         /\ ~shutdown) => ENABLED Accept)
  /\ [][(\E t \in Tunnels : ReturnedFatal(t)) =>
          /\ source' = source
          /\ pc' = pc
          /\ tunnels' = tunnels
          /\ streams' = streams
          /\ events' = events]_vars

(* a step of the lifecycle of t on one of its failure paths: an error or a  *)
(* refusal arises, or the deregistration that follows it is made            *)
FailureStep(t) ==
  /\ pc'[t] # pc[t]
  /\ \/ pc'[t] \in {"failing", "dropped", "refused"}
     \/ pc[t] \in {"failing", "refused"}

(* the lifecycle of u is between its registration and its deregistration    *)
Live(u) ==
  pc[u] \in {"authenticating", "refused", "naming", "downlink", "serving",
             "closing", "failing"}

(* C17: a failure in the lifecycle of one tunnel, fatal or not, leaves      *)
(* every sibling as it was: its lifecycle position, its registry record     *)
(* and name, its downlink and its sub-streams; and the daemon still takes   *)
(* the next tunnel from the source, whatever has failed so far.             *)
C17_SiblingTunnelsUnaffected ==
  /\ []((source # <<>> /\ ~shutdown) => ENABLED Accept)
  /\ [](\A u \in Tunnels : Live(u) =>
           /\ contains_key(tunnels, tid[u])
           /\ tunnels[tid[u]].tunnel = u)
  /\ [][\A t \in Tunnels : FailureStep(t) =>
          \A u \in Tunnels \ {t} :
             /\ pc'[u] = pc[u]
             /\ tname'[u] = tname[u]
             /\ events'[u] = events[u]
             /\ result'[u] = result[u]
             /\ downlink'[u] = downlink[u]
             /\ streams'[u] = streams[u]
             /\ Live(u) =>
                  /\ contains_key(tunnels', tid[u])
                  /\ tunnels'[tid[u]] = tunnels[tid[u]]]_vars

(* one lifecycle has returned a fatal error while its sibling is serving    *)
(* under its name with a sub-stream in flight                               *)
C17_Witness ==
  \E t \in Tunnels : \E u \in Tunnels \ {t} :
     /\ ReturnedFatal(t)
     /\ pc[u] = "serving"
     /\ InFlight(u) # {}
     /\ contains_key(tunnels, tid[u])
     /\ tunnels[tid[u]].name = tname[u]

(* C18: authenticate_tunnel turns a Remote error and a non-fatal Handling   *)
(* error into a refusal and a FatalApplicationError into a fatal error. A   *)
(* refused tunnel has sent tunnel_connected only, was never named, never    *)
(* had its downlink taken, and its next step deregisters it and returns Ok. *)
(* After a fatal authentication error the lifecycle deregisters the tunnel  *)
(* and returns FatalError, also without naming it or taking its downlink.   *)
C18_AuthenticationRefusal ==
  /\ [](/\ \A outcome \in AuthenticationOutcomes(TunnelNames) :
             /\ outcome.kind \in {"Remote", "Handling"} =>
                   authenticate_tunnel(outcome) = None
             /\ outcome.kind = "FatalApplicationError" =>
                   authenticate_tunnel(outcome).tag = "FatalError"
        /\ \A t \in Tunnels :
             (\/ pc[t] = "refused"
              \/ pc[t] = "failing" /\ result[t].err = "Authentication"
              \/ pc[t] = "done" /\ result[t] = Ok /\ ~Authenticated(t)
              \/ pc[t] = "done" /\ result[t].tag = "FatalError"
                               /\ result[t].err = "Authentication") =>
                /\ events[t] = <<Event("connected", tid[t], NoName)>>
                /\ tname[t] = NoName
                /\ downlink[t] = "closed"
                /\ \A s \in Slots : streams[t][s] = NoStream
                /\ pc[t] = "done" => deregs[t] = 1
                /\ pc[t] # "done" =>
                     /\ deregs[t] = 0
                     /\ contains_key(tunnels, tid[t])
                     /\ tunnels[tid[t]].name = NoName)
  /\ [][\A t \in Tunnels :
          /\ (pc[t] = "authenticating" /\ pc'[t] # pc[t]) =>
                \/ pc'[t] = "refused" /\ result'[t] = result[t]
                \/ pc'[t] = "failing" /\ result'[t].tag = "FatalError"
                \/ pc'[t] = "naming"
          /\ (pc[t] = "refused" /\ pc'[t] # pc[t]) =>
                /\ pc'[t] = "done"
                /\ result'[t] = Ok
                /\ ~contains_key(tunnels', tid[t])
          /\ (pc[t] = "failing" /\ result[t].err = "Authentication"
                                /\ pc'[t] # pc[t]) =>
                /\ pc'[t] = "done"
                /\ result'[t] = result[t]
                /\ ~contains_key(tunnels', tid[t])]_vars

(* one tunnel was refused and has returned Ok, the other has returned       *)
(* FatalError from authentication; both were deregistered                   *)
C18_Witness ==
  \E t \in Tunnels : \E u \in Tunnels \ {t} :
     /\ pc[t] = "done" /\ result[t] = Ok /\ ~Authenticated(t) /\ deregs[t] = 1
     /\ ReturnedFatal(u) /\ result[u].err = "Authentication" /\ deregs[u] = 1
     /\ tunnels = EmptyMap

(* C19: the registry calls of one lifecycle come in the order register,     *)
(* name, deregister, each after the one before has returned: the record of  *)
(* the tunnel's id is inserted only by its registration step, named only by *)
(* its naming step, which finds it registered and unnamed, and removed only *)
(* by its one deregistration step; so the lifecycle's name_tunnel never     *)
(* returns TunnelNotRegistered.                                             *)
C19_RegisterNameDeregisterOrder ==
  /\ [](\A t \in Tunnels :
          /\ result[t].tag = "RegistryNamingError" =>
                result[t].err # "TunnelNotRegistered"
          /\ pc[t] = "naming" =>
                /\ contains_key(tunnels, tid[t])
                /\ tunnels[tid[t]].tunnel = t
                /\ tunnels[tid[t]].name = NoName
                /\ deregs[t] = 0)
  /\ [][\A t \in Tunnels :
          LET held  == contains_key(tunnels, tid[t]) /\ tunnels[tid[t]].tunnel = t
              held2 == contains_key(tunnels', tid[t]) /\ tunnels'[tid[t]].tunnel = t
          IN  /\ (~held /\ held2) =>
                    /\ pc[t] = "registering" /\ pc'[t] = "authenticating"
                    /\ tunnels'[tid[t]].name = NoName
              /\ (held /\ held2 /\ tunnels'[tid[t]] # tunnels[tid[t]]) =>
                    /\ pc[t] = "naming" /\ pc'[t] = "downlink"
                    /\ tunnels[tid[t]].name = NoName
                    /\ tunnels'[tid[t]].name = tname[t]
              /\ (held /\ ~held2) =>
                    /\ pc[t] \in {"refused", "closing", "failing"}
                    /\ pc'[t] = "done"
                    /\ deregs[t] = 0 /\ deregs'[t] = 1
              /\ deregs'[t] # deregs[t] => held /\ ~held2]_vars

(* one lifecycle has made its three calls in order and returned Ok while    *)
(* the other, registered, is about to call name_tunnel                      *)
C19_Witness ==
  \E t \in Tunnels : \E u \in Tunnels \ {t} :
     /\ pc[t] = "done" /\ result[t] = Ok /\ Authenticated(t) /\ deregs[t] = 1
     /\ pc[u] = "naming"
     /\ contains_key(tunnels, tid[u])

(* the call of c is between getting the wrapper's guard and returning *)
ThroughWrapper(c) == op[c].stage # "idle" /\ rwlock[c] # "none"

(* C20: through one SerializedTunnelRegistry a register, name or deregister *)
(* call overlaps no other call, mutation or lookup, and it alone acts on    *)
(* the inner registry; a lookup overlaps only lookups, and while only       *)
(* lookups are under way a further lookup can be let in.                    *)
C20_SingleWriterManyReaders ==
  /\ \A c \in Callers :
       /\ op[c].stage # "idle" => ThroughWrapper(c)
       /\ ThroughWrapper(c) =>
            rwlock[c] = IF op[c].kind \in Mutations THEN "write" ELSE "read"
       /\ (ThroughWrapper(c) /\ op[c].kind \in Mutations) =>
            /\ \A d \in Callers \ {c} : op[d].stage = "idle"
            /\ mutex \in {NoHolder, c}
  /\ \A c \in Callers :
       (/\ op[c].stage = "idle"
        /\ \A d \in Callers : ThroughWrapper(d) => op[d].kind \notin Mutations) =>
           /\ ENABLED WrapCall(c, "lookup_by_id")
           /\ ENABLED WrapCall(c, "lookup_by_name")

(* a lookup_by_id and a lookup_by_name made through the wrapper are under   *)
(* way at once, one of them inside the inner registry, over a registry      *)
(* that holds a named record                                                *)
C20_Witness ==
  \E c \in Callers : \E d \in Callers \ {c} :
     /\ ThroughWrapper(c) /\ op[c].kind = "lookup_by_id" /\ op[c].stage = "locked"
     /\ ThroughWrapper(d) /\ op[d].kind = "lookup_by_name" /\ op[d].stage = "wrapped"
     /\ \E i \in DOMAIN tunnels : tunnels[i].name # NoName

(* C21: deregister_tunnel(id) on a registered id removes the record and     *)
(* returns it, on an unregistered id returns the not-found error and leaves *)
(* the map as it was; the records of other ids are untouched either way, a  *)
(* second deregister_tunnel(id) right after the first returns not-found,    *)
(* and a record comes back into the map only through register_tunnel.       *)
C21_DeregisterResults ==
  /\ [](\A i \in TunnelIds :
          LET once == deregister_tunnel(tunnels, i)
              twice == deregister_tunnel(once.map, i)
          IN  /\ twice.ret = NotFound
              /\ twice.map = once.map)
  /\ [][/\ \A c \in Callers :
            op[c].kind = "deregister" /\ op[c].stage = "locked" /\ op'[c].stage = "done" =>
              IF op[c].id \in DOMAIN tunnels
              THEN /\ op'[c].ret = Some(tunnels[op[c].id])
                   /\ DOMAIN tunnels' = DOMAIN tunnels \ {op[c].id}
                   /\ \A k \in DOMAIN tunnels' : tunnels'[k] = tunnels[k]
              ELSE /\ op'[c].ret = NotFound
                   /\ tunnels' = tunnels
      /\ \A i \in TunnelIds :
            (i \notin DOMAIN tunnels /\ i \in DOMAIN tunnels') =>
               \E c \in Callers : /\ op[c].kind = "register" /\ op[c].id = i
                                  /\ op[c].stage = "locked" /\ op'[c].stage = "done"]_vars

(* a deregister_tunnel has returned a named record, which is gone from the  *)
(* map, while the record of another id is still there                       *)
C21_Witness ==
  \E c \in Callers :
    /\ op[c].kind = "deregister" /\ op[c].stage = "done"
    /\ op[c].ret.tag = "Some"
    /\ op[c].ret.rec.name # NoName
    /\ op[c].id \notin DOMAIN tunnels
    /\ tunnels # EmptyMap

(* C22: an id is reusable after deregistration. From any map the registry   *)
(* reaches, register(id, t); name(id, n); deregister(id); register(id, t)   *)
(* on a free id succeeds at both registers and at the deregister, and the   *)
(* second record is unnamed even when the first had been named; and in      *)
(* every run a register_tunnel(id) made after a deregister_tunnel(id) has   *)
(* returned its record returns Ok and inserts an unnamed record.            *)
C22_IdReusableAfterDeregister ==
  /\ [](\A i \in TunnelIds : \A n \in TunnelNames : \A c \in Callers :
          LET free   == deregister_tunnel(tunnels, i).map
              first  == register_tunnel(free, i, c)
              named  == name_tunnel(first.map, i, n)
              gone   == deregister_tunnel(named.map, i)
              second == register_tunnel(gone.map, i, c)
          IN  /\ first.ret = Ok
              /\ gone.ret.tag = "Some"
              /\ named.ret = Ok => gone.ret.rec.name = n
              /\ second.ret = Ok
              /\ second.map[i] = TunnelRecord(i, NoName, c)
              /\ second.map = first.map)
  /\ [][\A c \in Callers :
          (/\ op[c].kind = "register" /\ op[c].stage = "locked" /\ op'[c].stage = "done"
           /\ completed[op[c].id] = "deregistered") =>
             /\ op'[c].ret = Ok
             /\ tunnels'[op[c].id] = TunnelRecord(op[c].id, NoName, c)]_vars

(* a register_tunnel of an id that had been registered and deregistered     *)
(* before has returned Ok, its record is unnamed, and another record        *)
(* carries a name                                                           *)
C22_Witness ==
  \E c \in Callers :
    /\ op[c].kind = "register" /\ op[c].stage = "done" /\ op[c].ret = Ok
    /\ completed[op[c].id] = "deregistered"
    /\ tunnels[op[c].id].name = NoName
    /\ \E k \in DOMAIN tunnels : tunnels[k].name # NoName

(* C23: find_service returns the first service, in the order of the         *)
(* add_service_blocking calls, that accepts the request, and None when no   *)
(* service then in the registry accepts it; services added later do not     *)
(* change which position an earlier answer named.                           *)
C23_FirstAcceptingService ==
  found # NoFind =>
    /\ found.len <= Len(services)
    /\ IF \E k \in 1..found.len : accepts(services[k], found.req)
       THEN /\ found.ret.tag = "Some"
            /\ found.ret.rec \in 1..found.len
            /\ accepts(services[found.ret.rec], found.req)
            /\ \A j \in 1..(found.ret.rec - 1) : ~accepts(services[j], found.req)
       ELSE found.ret = None

(* the request is accepted by the second and by the third service added,    *)
(* not by the first, and find_service returned the second                   *)
C23_Witness ==
  /\ Len(services) >= 3
  /\ found.len = Len(services)
  /\ ~accepts(services[1], found.req)
  /\ accepts(services[2], found.req)
  /\ accepts(services[3], found.req)
  /\ found.ret = Some(2)

(***************************************************************************)
(* TCP proxy addresses (common/protocol/proxy_tcp.rs).                     *)
(*                                                                         *)
(* A RouteAddress is text.  It is modelled as a sequence of tokens: the    *)
(* separator '/', a keyword, a decimal number, a printed IPv4 or IPv6      *)
(* address, or a piece of a host name.  Formatting builds such a sequence, *)
(* parsing splits it at the separators exactly as splitn(5, '/') does.     *)
(***************************************************************************)
Ports == 1..NumPorts
Ip4Addrs == 1..NumAddrs
Ip6Addrs == 1..NumAddrs
ScopeIds == 0..MaxScopeId

(* Ipv4Addr::LOCALHOST (127.0.0.1) and Ipv6Addr::LOCALHOST (::1) *)
LOCALHOST4 == 1
LOCALHOST6 == 1

Sep == [k |-> "/", v |-> 0]
Word(w) == [k |-> w, v |-> 0]
Num(n) == [k |-> "num", v |-> n]
Ip4Text(a) == [k |-> "v4", v |-> a]
Ip6Text(a) == [k |-> "v6", v |-> a]

(* host names: a plain one, and one whose text holds a separator *)
Hosts == { <<Word("localhost")>>, <<Word("a"), Sep, Word("b")>> }
DnsClasses == {"dns", "dns4", "dns6"}

(* enum TcpStreamTarget { Port(u16), SocketAddr(SocketAddr), Dns(DnsTarget) } *)
Port(p) == [shape |-> "Port", port |-> p]
SocketAddrV4(a, p) == [shape |-> "V4", ip |-> a, port |-> p]
SocketAddrV6(a, p, scope) == [shape |-> "V6", ip |-> a, port |-> p, scope_id |-> scope]
Dns(class, h, p) == [shape |-> "Dns", class |-> class, host |-> h, port |-> p]

Targets ==
  {Port(p) : p \in Ports}
  \cup {SocketAddrV4(a, p) : a \in Ip4Addrs, p \in Ports}
  \cup {SocketAddrV6(a, p, s) : a \in Ip6Addrs, p \in Ports, s \in ScopeIds}
  \cup {Dns(c, h, p) : c \in DnsClasses, h \in Hosts, p \in Ports}

(* impl Display for TcpStreamTarget; a V6 socket address is written from   *)
(* s.ip() and s.port() only                                                *)
fmt(x) ==
  CASE x.shape = "Port" -> <<Sep, Word("tcp"), Sep, Num(x.port)>>
    [] x.shape = "V4" ->
         <<Sep, Word("ip4"), Sep, Ip4Text(x.ip), Sep, Word("tcp"), Sep, Num(x.port)>>
    [] x.shape = "V6" ->
         <<Sep, Word("ip6"), Sep, Ip6Text(x.ip), Sep, Word("tcp"), Sep, Num(x.port)>>
    [] x.shape = "Dns" ->
         <<Sep, Word(x.class), Sep>> \o x.host \o <<Sep, Word("tcp"), Sep, Num(x.port)>>

(* str::splitn(n, '/'): at most n parts, the last one takes the remainder *)
RECURSIVE splitn(_, _)
splitn(s, n) ==
  LET seps == {i \in 1..Len(s) : s[i] = Sep}
  IN IF n = 1 \/ seps = {}
     THEN <<s>>
     ELSE LET i == CHOOSE j \in seps : \A m \in seps : j <= m
          IN <<SubSeq(s, 1, i - 1)>> \o splitn(SubSeq(s, i + 1, Len(s)), n - 1)

ParseErr(e) == [tag |-> "Err", err |-> e]
ParseOk(x) == [tag |-> "Ok", target |-> x]

(* the match of from_str on the segments between the prefix and the port *)
from_segments(parts, port) ==
  LET is(i, w) == parts[i] = <<Word(w)>>
  IN CASE Len(parts) = 1 /\ is(1, "tcp") -> ParseOk(SocketAddrV4(LOCALHOST4, port))
       [] Len(parts) = 3 /\ is(1, "ip4") /\ is(3, "tcp") ->
            IF Len(parts[2]) = 1 /\ parts[2][1].k = "v4"
            THEN ParseOk(SocketAddrV4(parts[2][1].v, port))
            ELSE ParseErr("InvalidIP")
       [] Len(parts) = 3 /\ is(1, "ip6") /\ is(3, "tcp") ->
            IF Len(parts[2]) = 1 /\ parts[2][1].k = "v6"
            THEN ParseOk(SocketAddrV6(parts[2][1].v, port, 0))
            ELSE ParseErr("InvalidIP")
       [] Len(parts) = 3 /\ parts[1] \in {<<Word(c)>> : c \in DnsClasses} /\ is(3, "tcp") ->
            ParseOk(Dns(parts[1][1].k, parts[2], port))
       [] OTHER -> ParseErr("NoMatchingFormat")

(* impl FromStr for TcpStreamTarget *)
from_str(s) ==
  LET parts == splitn(s, 5)
      rest == Tail(parts)
      last == rest[Len(rest)]
  IN IF Head(parts) # <<>> THEN ParseErr("InvalidPrefix")
     ELSE IF rest = <<>> THEN ParseErr("TooFewSegments")
     ELSE IF ~(Len(last) = 1 /\ last[1].k = "num") THEN ParseErr("InvalidPort")
     ELSE from_segments(SubSeq(rest, 1, Len(rest) - 1), last[1].v)

is_ipv6(addr) == addr.shape = "V6"
is_ipv4(addr) == addr.shape = "V4"
includes_ipv6(t) == t.class \in {"dns", "dns6"}
includes_ipv4(t) == t.class \in {"dns", "dns4"}

(* DnsTarget::contains with check_port = true *)
contains(t, addr) ==
  IF addr.port # t.port
  THEN FALSE
  ELSE (is_ipv6(addr) /\ includes_ipv6(t)) \/ (is_ipv4(addr) /\ includes_ipv4(t))

(* what tokio::net::lookup_host may answer for host:port *)
Lookups(p) ==
  { [tag |-> "Err", err |-> "IOError"],
    [tag |-> "Ok", addrs |-> <<>>],
    [tag |-> "Ok", addrs |-> <<SocketAddrV4(LOCALHOST4, p)>>],
    [tag |-> "Ok", addrs |-> <<SocketAddrV6(LOCALHOST6, p, 0)>>],
    [tag |-> "Ok", addrs |-> <<SocketAddrV6(LOCALHOST6, p, 0), SocketAddrV4(LOCALHOST4, p)>>] }

(* TcpStreamService::resolve_dns: the looked-up addresses of the class *)
resolve_dns(t, lookup) ==
  IF lookup.tag = "Err"
  THEN lookup
  ELSE [tag |-> "Ok", addrs |-> SelectSeq(lookup.addrs, LAMBDA a : contains(t, a))]

(* TcpStreamService::resolve *)
resolve(x, lookup) ==
  CASE x.shape = "Port" ->
         [tag |-> "Ok",
          addrs |-> <<SocketAddrV6(LOCALHOST6, x.port, 0), SocketAddrV4(LOCALHOST4, x.port)>>]
    [] x.shape \in {"V4", "V6"} -> [tag |-> "Ok", addrs |-> <<x>>]
    [] x.shape = "Dns" -> resolve_dns(x, lookup)

(* addresses no TcpStreamTarget prints *)
Malformed ==
  { <<Word("tcp"), Sep, Num(1)>>,
    <<Sep, Word("tcp")>>,
    <<Sep, Word("tcp"), Sep, Word("localhost")>>,
    <<Sep, Word("ip4"), Sep, Ip6Text(LOCALHOST6), Sep, Word("tcp"), Sep, Num(1)>>,
    <<Sep, Word("udp"), Sep, Num(1)>> }

tcpFrame == UNCHANGED <<tunnels, regVars, daemonVars, svcVars, arcVars, evtVars, delVars,
                        moreVars>>

(* a client prints a target into the address of a stream it opens *)
Format(x) ==
  /\ address = <<>>
  /\ target' = x
  /\ address' = fmt(x)
  /\ UNCHANGED <<parsed, candidates>>
  /\ tcpFrame

(* an address arrives that was written by hand *)
Receive(s) ==
  /\ address = <<>>
  /\ address' = s
  /\ UNCHANGED <<target, parsed, candidates>>
  /\ tcpFrame

(* TcpStreamService::handle, first step: addr.parse() *)
Parse ==
  /\ address # <<>>
  /\ parsed = NoRet
  /\ parsed' = from_str(address)
  /\ UNCHANGED <<target, address, candidates>>
  /\ tcpFrame

(* TcpStreamService::handle, second step: self.resolve(target) *)
Resolve ==
  /\ parsed.tag = "Ok"
  /\ candidates = NoRet
  /\ \E lookup \in Lookups(parsed.target.port) :
       candidates' = resolve(parsed.target, lookup)
  /\ UNCHANGED <<target, address, parsed>>
  /\ tcpFrame

TcpNext ==
  \/ \E x \in Targets : Format(x)
  \/ \E s \in Malformed : Receive(s)
  \/ Parse
  \/ Resolve

TcpSpec == RegInit /\ [][TcpNext]_vars

(* C24: parsing the address printed from a target gives the target back.   *)
(* The code does not do this: Port(p) prints as /tcp/p, which parses to    *)
(* the IPv4 loopback socket address.                                       *)
C24_RoundTrip ==
  (target # NoRet /\ parsed # NoRet) => parsed = ParseOk(target)

(* C25: an address /tcp/<port> resolves to ::1 and then 127.0.0.1 on that  *)
(* port.  The code does not do this: the address parses to the socket      *)
(* address 127.0.0.1:port, whose only candidate is itself.                 *)
C25_ShorthandResolvesToBothLoopbacks ==
  \A p \in Ports :
    (address = <<Sep, Word("tcp"), Sep, Num(p)>> /\ candidates # NoRet)
      => candidates = [tag |-> "Ok",
                       addrs |-> <<SocketAddrV6(LOCALHOST6, p, 0), SocketAddrV4(LOCALHOST4, p)>>]

(***************************************************************************)
(* Shared tunnel handles.  TunnelRecord.tunnel and the payload of the      *)
(* lifecycle events are Arc handles to one tunnel object; the object is    *)
(* destroyed when its strong count reaches zero.                           *)
(***************************************************************************)
(* the tunnel objects, and the consumers that look tunnels up *)
Objects == 1..NumObjects
Consumers == 1..NumConsumers

NoHandle == [tunnel |-> 0, from |-> "-", used |-> "-"]
Handle(t, from) == [tunnel |-> t, from |-> from, used |-> "-"]

(* Arc::clone: one more holder of the same object *)
Arc_clone(cnt, t) == [cnt EXCEPT ![t] = @ + 1]

(* drop of an Arc: one holder fewer, and the object goes with the last one *)
Arc_drop(cnt, gone, t) ==
  [strong |-> [cnt EXCEPT ![t] = @ - 1],
   dropped |-> IF cnt[t] = 1 THEN gone \cup {t} ELSE gone]

drop_record_destroys(cnt, gone, ret) ==
  IF ret.tag = "Some"
  THEN [strong |-> [cnt EXCEPT ![ret.rec.tunnel] = @ - 1],
        dropped |-> gone \cup {ret.rec.tunnel}]
  ELSE [strong |-> cnt, dropped |-> gone]

(* the caller of deregister_tunnel lets the returned record go out of scope *)
drop_record(cnt, gone, ret) ==
  IF ret.tag = "Some"
  THEN Arc_drop(cnt, gone, ret.rec.tunnel)
  ELSE [strong |-> cnt, dropped |-> gone]

arcFrame == UNCHANGED <<regVars, daemonVars, svcVars, tcpVars, evtVars, delVars, moreVars>>

(* tunnel_lifecycle: Self::register_tunnel(id, Arc::clone(&tunnel), ..) *)
ArcRegister(t, id) ==
  /\ stage[t].st = "new"
  /\ LET r == register_tunnel(tunnels, id, t)
     IN /\ tunnels' = r.map
        /\ IF r.ret = Ok
           THEN /\ strong' = Arc_clone(strong, t)
                /\ stage' = [stage EXCEPT ![t] = [st |-> "registered", id |-> id]]
           ELSE /\ strong' = strong
                /\ stage' = [stage EXCEPT ![t] = [st |-> "failed", id |-> id]]
  /\ UNCHANGED <<dropped, handles, channel>>
  /\ arcFrame

(* self.tunnel_connected.send((id, tunnel.clone())): with a subscriber the *)
(* channel keeps the value, without one send hands it back and it is let go *)
ArcConnected(t, subscribed) ==
  /\ stage[t].st = "registered"
  /\ stage' = [stage EXCEPT ![t].st = "connected"]
  /\ IF subscribed
     THEN /\ channel' = channel \cup {<<stage[t].id, t>>}
          /\ strong' = Arc_clone(strong, t)
     ELSE UNCHANGED <<channel, strong>>
  /\ UNCHANGED <<tunnels, dropped, handles>>
  /\ arcFrame

(* registered_tunnel_lifecycle: Self::name_tunnel(id, name, ..) *)
ArcName(t, n) ==
  /\ stage[t].st = "connected"
  /\ LET r == name_tunnel(tunnels, stage[t].id, n)
     IN /\ r.ret = Ok
        /\ tunnels' = r.map
  /\ stage' = [stage EXCEPT ![t].st = "named"]
  /\ UNCHANGED <<strong, dropped, handles, channel>>
  /\ arcFrame

(* a consumer calls lookup_by_id and keeps the record it is given *)
ArcLookupById(c, id) ==
  /\ handles[c] = NoHandle
  /\ LET r == lookup_by_id(tunnels, id)
     IN /\ r.tag = "Some"
        /\ handles' = [handles EXCEPT ![c] = Handle(r.rec.tunnel, "lookup_by_id")]
        /\ strong' = Arc_clone(strong, r.rec.tunnel)
  /\ UNCHANGED <<tunnels, dropped, stage, channel>>
  /\ arcFrame

(* a consumer calls lookup_by_name and keeps the record it is given *)
ArcLookupByName(c, n) ==
  /\ handles[c] = NoHandle
  /\ LET r == lookup_by_name(tunnels, n)
     IN /\ r.tag = "Some"
        /\ handles' = [handles EXCEPT ![c] = Handle(r.rec.tunnel, "lookup_by_name")]
        /\ strong' = Arc_clone(strong, r.rec.tunnel)
  /\ UNCHANGED <<tunnels, dropped, stage, channel>>
  /\ arcFrame

(* a subscriber receives a tunnel_connected event: recv clones the payload *)
ArcReceive(c, ev) ==
  /\ handles[c] = NoHandle
  /\ ev \in channel
  /\ handles' = [handles EXCEPT ![c] = Handle(ev[2], "event")]
  /\ strong' = Arc_clone(strong, ev[2])
  /\ UNCHANGED <<tunnels, dropped, stage, channel>>
  /\ arcFrame

(* the channel lets go of an event every subscriber has seen or lost *)
ArcExpire(ev) ==
  /\ ev \in channel
  /\ channel' = channel \ {ev}
  /\ LET d == Arc_drop(strong, dropped, ev[2])
     IN strong' = d.strong /\ dropped' = d.dropped
  /\ UNCHANGED <<tunnels, handles, stage>>
  /\ arcFrame

(* a consumer works with the tunnel behind its handle *)
ArcUse(c) ==
  /\ handles[c] # NoHandle
  /\ handles[c].tunnel \notin dropped
  /\ handles' = [handles EXCEPT ![c].used =
                    IF stage[handles[c].tunnel].st \in {"deregistered", "ended"}
                    THEN "deregistered" ELSE "registered"]
  /\ UNCHANGED <<tunnels, strong, dropped, stage, channel>>
  /\ arcFrame

(* a consumer lets its handle go *)
ArcRelease(c) ==
  /\ handles[c] # NoHandle
  /\ handles' = [handles EXCEPT ![c] = NoHandle]
  /\ LET d == Arc_drop(strong, dropped, handles[c].tunnel)
     IN strong' = d.strong /\ dropped' = d.dropped
  /\ UNCHANGED <<tunnels, stage, channel>>
  /\ arcFrame

(* the lifecycle's deregister_tunnel(id); the record it returns is dropped *)
ArcDeregister(t) ==
  /\ stage[t].st \in {"registered", "connected", "named"}
  /\ LET r == deregister_tunnel(tunnels, stage[t].id)
         d == drop_record(strong, dropped, r.ret)
     IN /\ tunnels' = r.map
        /\ strong' = d.strong
        /\ dropped' = d.dropped
  /\ stage' = [stage EXCEPT ![t].st = "deregistered"]
  /\ UNCHANGED <<handles, channel>>
  /\ arcFrame

(* the lifecycle future completes and its own Arc<TTunnel> goes with it *)
ArcEnd(t) ==
  /\ stage[t].st \in {"deregistered", "failed"}
  /\ stage' = [stage EXCEPT ![t].st = "ended"]
  /\ LET d == Arc_drop(strong, dropped, t)
     IN strong' = d.strong /\ dropped' = d.dropped
  /\ UNCHANGED <<tunnels, handles, channel>>
  /\ arcFrame

ArcNext ==
  \/ \E t \in Objects, id \in TunnelIds : ArcRegister(t, id)
  \/ \E t \in Objects, subscribed \in BOOLEAN : ArcConnected(t, subscribed)
  \/ \E t \in Objects, n \in TunnelNames : ArcName(t, n)
  \/ \E c \in Consumers, id \in TunnelIds : ArcLookupById(c, id)
  \/ \E c \in Consumers, n \in TunnelNames : ArcLookupByName(c, n)
  \/ \E c \in Consumers, ev \in channel : ArcReceive(c, ev)
  \/ \E ev \in channel : ArcExpire(ev)
  \/ \E c \in Consumers : ArcUse(c)
  \/ \E c \in Consumers : ArcRelease(c)
  \/ \E t \in Objects : ArcDeregister(t)
  \/ \E t \in Objects : ArcEnd(t)

ArcSpec == RegInit /\ [][ArcNext]_vars

(* every place that holds an Arc to tunnel t *)
HoldersOf(t) ==
  Cardinality({k \in DOMAIN tunnels : tunnels[k].tunnel = t})
  + Cardinality({c \in Consumers : handles[c].tunnel = t})
  + Cardinality({ev \in channel : ev[2] = t})
  + (IF stage[t].st = "ended" THEN 0 ELSE 1)

Deregistered(t) == stage[t].st \in {"deregistered", "ended"}

(* C26: deregistration removes visibility, not the object.  A handle a     *)
(* consumer got from lookup_by_id, lookup_by_name or an event is valid for *)
(* as long as the consumer keeps it, also after deregister_tunnel(id) has  *)
(* returned, and the consumer can go on using it; once a tunnel is         *)
(* deregistered no lookup returns it; the deregistering step leaves every  *)
(* handle as it was; and the tunnel object is destroyed exactly when       *)
(* nothing holds it any more.                                              *)
C26_TunnelOutlivesRecord ==
  /\ [](/\ \A c \in Consumers :
             handles[c] # NoHandle => (handles[c].tunnel \notin dropped /\ ENABLED ArcUse(c))
        /\ \A t \in Objects :
             /\ Deregistered(t) =>
                  /\ \A id \in TunnelIds :
                       lookup_by_id(tunnels, id) # None
                         => lookup_by_id(tunnels, id).rec.tunnel # t
                  /\ \A n \in TunnelNames :
                       lookup_by_name(tunnels, n) # None
                         => lookup_by_name(tunnels, n).rec.tunnel # t
             /\ (t \in dropped) <=> (HoldersOf(t) = 0))
  /\ [][\A t \in Objects :
          (stage[t].st # "deregistered" /\ stage'[t].st = "deregistered")
            => handles' = handles]_vars

(* a consumer looked a tunnel up by id, the tunnel was deregistered and    *)
(* its lifecycle ended, and the consumer used its handle after that: the   *)
(* object is still there although the registry is empty                    *)
C26_Witness ==
  \E c \in Consumers :
    /\ handles[c].from = "lookup_by_id"
    /\ handles[c].used = "deregistered"
    /\ stage[handles[c].tunnel].st = "ended"
    /\ handles[c].tunnel \notin dropped
    /\ strong[handles[c].tunnel] = 1
    /\ tunnels = EmptyMap

(***************************************************************************)
(* Lifecycle events.  tunnel_connected is the Sender of a tokio broadcast   *)
(* channel made by event_channel(32); the receiver made with it is thrown  *)
(* away, so a subscriber exists only once somebody calls subscribe().      *)
(* The channel keeps the last EventCapacity values that were sent while a  *)
(* receiver existed; every receiver reads them through a cursor of its own.*)
(***************************************************************************)
Subscribers == 1..NumSubscribers

receiver_count(r) == Cardinality({s \in Subscribers : r[s].st = "open"})

(* the newest EventCapacity values of a sequence *)
retain(q) ==
  IF Len(q) <= EventCapacity THEN q ELSE SubSeq(q, Len(q) - EventCapacity + 1, Len(q))

(* Sender::send: Err(SendError) when no receiver exists, and the value is  *)
(* gone; otherwise the value is stored, pushing out the oldest of a full   *)
(* buffer                                                                  *)
broadcast_send(q, n, r, v) ==
  IF receiver_count(r) = 0
  THEN [ring |-> q, tail |-> n, ret |-> "Err"]
  ELSE [ring |-> retain(Append(q, v)), tail |-> n + 1, ret |-> "Ok"]

(* Receiver::recv for a cursor that has consumed `next` values of `n` *)
broadcast_recv(q, n, next) ==
  LET oldest == n - Len(q)
  IN IF next = n THEN [tag |-> "Empty", value |-> 0, next |-> next]
     ELSE IF next < oldest
          THEN [tag |-> "Lagged", value |-> oldest - next, next |-> oldest]
          ELSE [tag |-> "Value", value |-> q[next + 1 - oldest], next |-> next + 1]

send_ready_backpressure(n, r) ==
  \A s \in Subscribers : r[s].st = "open" => n - r[s].next < EventCapacity

(* `let _ = self.tunnel_connected.send(..)` is a plain call, not awaited:  *)
(* nothing a receiver does can hold it up                                  *)
send_ready(n, r) == TRUE

evtFrame == UNCHANGED <<tunnels, regVars, daemonVars, svcVars, tcpVars, arcVars, delVars,
                        moreVars>>

(* somebody calls daemon.tunnel_connected.subscribe(); subscribers are     *)
(* numbered in the order they come                                         *)
EvSubscribe(s) ==
  /\ rx[s].st = "none"
  /\ \A o \in Subscribers : o < s => rx[o].st = "open"
  /\ rx' = [rx EXCEPT ![s] = [st |-> "open", next |-> tail, since |-> sends, lost |-> 0]]
  /\ UNCHANGED <<sends, ring, tail, sendRet>>
  /\ evtFrame

(* the lifecycle of the next tunnel reaches its tunnel_connected send and  *)
(* goes on, whatever send returned                                         *)
EvSend ==
  /\ sends < MaxEvents
  /\ send_ready(tail, rx)
  /\ LET r == broadcast_send(ring, tail, rx, sends + 1)
     IN /\ ring' = r.ring
        /\ tail' = r.tail
        /\ sendRet' = r.ret
  /\ sends' = sends + 1
  /\ UNCHANGED rx
  /\ evtFrame

(* a subscriber's recv() returns an event or RecvError::Lagged *)
EvRecv(s) ==
  /\ rx[s].st = "open"
  /\ LET r == broadcast_recv(ring, tail, rx[s].next)
     IN /\ r.tag # "Empty"
        /\ rx' = [rx EXCEPT ![s].next = r.next,
                            ![s].lost = IF r.tag = "Lagged" THEN @ + r.value ELSE @]
  /\ UNCHANGED <<sends, ring, tail, sendRet>>
  /\ evtFrame

EvtNext ==
  \/ \E s \in Subscribers : EvSubscribe(s)
  \/ EvSend
  \/ \E s \in Subscribers : EvRecv(s)

EvtSpec == RegInit /\ [][EvtNext]_vars

(* C27: events are advisory.  The lifecycle can always make its send and   *)
(* moves on by it, whatever the subscribers do; a send with no subscriber  *)
(* stores nothing; a subscriber only ever receives events sent after it    *)
(* subscribed; a subscriber that is more than EventCapacity (32) events    *)
(* behind is told so and continues with the newest 32, the older ones      *)
(* being lost to it, while one that is not behind that far loses nothing.  *)
C27_EventsAdvisory ==
  /\ []((sends < MaxEvents) => ENABLED EvSend)
  /\ [][/\ sends' # sends =>
             /\ sends' = sends + 1
             /\ receiver_count(rx) = 0 =>
                  (ring' = ring /\ tail' = tail /\ sendRet' = "Err")
             /\ receiver_count(rx) > 0 =>
                  (tail' = tail + 1 /\ ring'[Len(ring')] = sends' /\ sendRet' = "Ok")
        /\ \A s \in Subscribers :
             (rx[s].st = "open" /\ rx'[s].next # rx[s].next) =>
               LET r == broadcast_recv(ring, tail, rx[s].next)
               IN /\ r.tag = "Value" => r.value > rx[s].since
                  /\ tail - rx[s].next > EventCapacity <=> r.tag = "Lagged"
                  /\ r.tag = "Lagged" =>
                       /\ r.value = tail - rx[s].next - EventCapacity
                       /\ rx'[s].next = tail - EventCapacity
                       /\ rx'[s].lost = rx[s].lost + r.value
                  /\ r.tag = "Value" =>
                       /\ rx'[s].lost = rx[s].lost
                       /\ r.value = (sends - tail) + rx[s].next + 1]_vars

(* a send was made with no subscriber and was dropped; a subscriber that   *)
(* came later fell more than 32 events behind, lost the oldest of them and *)
(* has since received one                                                  *)
C27_Witness ==
  \E s \in Subscribers :
    /\ rx[s].st = "open"
    /\ rx[s].since > 0
    /\ rx[s].lost > 0
    /\ rx[s].next > tail - EventCapacity
    /\ sends > tail

(***************************************************************************)
(* FFI delegation (ffi/delegation.rs).  A delegating future builds a       *)
(* Delegation around a oneshot sender, inserts it into the DelegationSet's *)
(* map, hands the id to the dispatcher and awaits the oneshot; the remote  *)
(* side reads the context and fulfills by id.                              *)
(***************************************************************************)
Delegations == 1..NumDelegations
Contexts == 1..NumContexts
Handles == 1..NumDelegations

(* context: None, as delegate_ffi_simple passes it *)
NoContext == 0

(* JSON texts: two strings, an object, and text that is no JSON at all *)
Jsons ==
  { [kind |-> "string", v |-> 1], [kind |-> "string", v |-> 2],
    [kind |-> "object", v |-> 0], [kind |-> "garbage", v |-> 0] }

CompletionStates == {"Complete", "Cancelled", "Exception"}

(* serde_json::from_str::<T>(&res) for T = String *)
from_str_T(json) ==
  IF json.kind = "string" THEN [tag |-> "Ok", value |-> json.v]
  ELSE [tag |-> "Err", value |-> 0]

(* serde_json::from_str::<serde_json::Value>(&json) *)
from_str_Value(json) ==
  IF json.kind # "garbage" THEN [tag |-> "Ok", value |-> json]
  ELSE [tag |-> "Err", value |-> json]

(* the delegating future's results *)
OkOk(value, ctx) == [tag |-> "Ok(Ok)", value |-> value, err |-> "-", ctx |-> ctx]
OkErr(e) == [tag |-> "Ok(Err)", value |-> 0, err |-> e, ctx |-> NoContext]
DelegationError(e) == [tag |-> "Err", value |-> 0, err |-> e, ctx |-> NoContext]

(* the oneshot before anything was sent, and after its sender was dropped  *)
(* by a panic unwinding through fulfill                                    *)
Pending == [tag |-> "Pending", value |-> 0, err |-> "-", ctx |-> NoContext]
Panicked == [tag |-> "Panic", value |-> 0, err |-> "-", ctx |-> NoContext]

map_completion_state_unchecked(completion_state, json) ==
  CASE completion_state = "Complete" -> [tag |-> "Ok", value |-> json]
    [] completion_state = "Cancelled" -> [tag |-> "Err", value |-> "Cancelled"]
    [] completion_state = "Exception" -> [tag |-> "Ok", value |-> json]

(* DelegationSet::map_completion_state: a RemoteResultRaw<String>, or the  *)
(* panic of .expect("Remote Exception contents must be valid json")        *)
map_completion_state(completion_state, json) ==
  CASE completion_state = "Complete" -> [tag |-> "Ok", value |-> json]
    [] completion_state = "Cancelled" -> [tag |-> "Err", value |-> "Cancelled"]
    [] completion_state = "Exception" ->
         IF from_str_Value(json).tag = "Ok"
         THEN [tag |-> "Err", value |-> "Exception"]
         ELSE [tag |-> "Panic", value |-> "Exception"]

(* the BoxedMethod built by Delegation::new_from_deserialized_sender: what *)
(* it puts into the oneshot                                                *)
deserialized_sender(with_context) ==
  IF with_context.tag = "Err"
  THEN OkErr(with_context.value)
  ELSE LET r == from_str_T(with_context.value)
       IN IF r.tag = "Err"
          THEN DelegationError("DeserializationFailed")
          ELSE OkOk(r.value, with_context.ctx)

send_without_context(delegation, raw) ==
  deserialized_sender([tag |-> raw.tag, value |-> raw.value, ctx |-> NoContext])

(* Delegation::send: result.map(|r| DelegationResult(r, context)), then    *)
(* the handler                                                             *)
send(delegation, raw) ==
  deserialized_sender([tag |-> raw.tag, value |-> raw.value,
                       ctx |-> delegation.context])

(* DelegationSet::read_context on the map *)
read_context(m, id) ==
  IF id \notin DOMAIN m THEN [tag |-> "Err", ctx |-> NoContext]
  ELSE IF m[id].context = NoContext THEN [tag |-> "Err", ctx |-> NoContext]
  ELSE [tag |-> "Ok", ctx |-> m[id].context]

NoCall == [state |-> "-", json |-> [kind |-> "-", v |-> 0], sync |-> FALSE]

delFrame == UNCHANGED <<tunnels, regVars, daemonVars, svcVars, tcpVars, arcVars, evtVars,
                        moreVars>>

(* delegate_ffi_contextual(dispatch, ctx), or delegate_ffi_simple when ctx *)
(* is NoContext: delegate_raw makes the oneshot and the Delegation         *)
DelStart(d, ctx) ==
  /\ fut[d].pc = "idle"
  /\ \A o \in Delegations : o < d => fut[o].pc # "idle"
  /\ fut' = [fut EXCEPT ![d] = [pc |-> "created", ctx |-> ctx, id |-> 0]]
  /\ UNCHANGED <<delmap, known, oneshot, fulfilled, readRet, resolved>>
  /\ delFrame

(* in the blocking task: let id = map.insert(delegation).into_u64() *)
DelInsert(d) ==
  /\ fut[d].pc = "created"
  /\ LET id == Cardinality(known \cup DOMAIN delmap) + 1
     IN /\ delmap' = [k \in DOMAIN delmap \cup {id} |->
                        IF k = id THEN [owner |-> d, context |-> fut[d].ctx]
                        ELSE delmap[k]]
        /\ fut' = [fut EXCEPT ![d].pc = "inserted", ![d].id = id]
  /\ UNCHANGED <<known, oneshot, fulfilled, readRet, resolved>>
  /\ delFrame

(* in the blocking task: dispatch_ffi(id) is entered *)
DelDispatch(d) ==
  /\ fut[d].pc = "inserted"
  /\ fut' = [fut EXCEPT ![d].pc = "dispatching"]
  /\ known' = known \cup {fut[d].id}
  /\ UNCHANGED <<delmap, oneshot, fulfilled, readRet, resolved>>
  /\ delFrame

(* the remote side, which has the id, calls read_context *)
ReadContext(id) ==
  /\ id \in known
  /\ readRet' = [id |-> id, ret |-> read_context(delmap, id)]
  /\ readRet' # readRet
  /\ UNCHANGED <<fut, delmap, known, oneshot, fulfilled, resolved>>
  /\ delFrame

(* fulfill / fulfill_blocking(id, completion_state, json); sync says the   *)
(* call is made by the dispatcher itself, before dispatch_ffi returns      *)
Fulfill(id, completion_state, json, sync) ==
  /\ id \in known
  /\ id \in DOMAIN delmap
  /\ LET d == delmap[id].owner
         raw == map_completion_state(completion_state, json)
     IN /\ sync => fut[d].pc = "dispatching"
        /\ delmap' = [k \in DOMAIN delmap \ {id} |-> delmap[k]]
        /\ oneshot' = [oneshot EXCEPT ![d] =
                         IF raw.tag = "Panic" THEN Panicked ELSE send(delmap[id], raw)]
        /\ fulfilled' = [fulfilled EXCEPT ![d] =
                           [state |-> completion_state, json |-> json, sync |-> sync]]
  /\ UNCHANGED <<fut, known, readRet, resolved>>
  /\ delFrame

(* dispatch_ffi returns and the blocking task is joined; a panic inside it *)
(* surfaces as DispatchFailed and ends the future                          *)
DelReturn(d) ==
  /\ fut[d].pc = "dispatching"
  /\ IF fulfilled[d].sync /\ oneshot[d] = Panicked
     THEN /\ fut' = [fut EXCEPT ![d].pc = "done"]
          /\ resolved' = [resolved EXCEPT ![d] = DelegationError("DispatchFailed")]
     ELSE /\ fut' = [fut EXCEPT ![d].pc = "awaiting"]
          /\ UNCHANGED resolved
  /\ UNCHANGED <<delmap, known, oneshot, fulfilled, readRet>>
  /\ delFrame

(* receiver.await: the value sent, or DispatcherDropped when the sender    *)
(* was dropped without sending                                             *)
DelResolve(d) ==
  /\ fut[d].pc = "awaiting"
  /\ oneshot[d] # Pending
  /\ fut' = [fut EXCEPT ![d].pc = "done"]
  /\ resolved' = [resolved EXCEPT ![d] =
                     IF oneshot[d] = Panicked
                     THEN DelegationError("DispatcherDropped")
                     ELSE oneshot[d]]
  /\ UNCHANGED <<delmap, known, oneshot, fulfilled, readRet>>
  /\ delFrame

DelNext ==
  \/ \E d \in Delegations, ctx \in Contexts \cup {NoContext} : DelStart(d, ctx)
  \/ \E d \in Delegations : DelInsert(d)
  \/ \E d \in Delegations : DelDispatch(d)
  \/ \E id \in Handles : ReadContext(id)
  \/ \E id \in Handles, st \in CompletionStates, json \in Jsons, sync \in BOOLEAN :
       Fulfill(id, st, json, sync)
  \/ \E d \in Delegations : DelReturn(d)
  \/ \E d \in Delegations : DelResolve(d)

DelSpec == RegInit /\ [][DelNext]_vars

FulfilledWith(d, completion_state) ==
  fut[d].pc = "done" /\ fulfilled[d].state = completion_state

(* C28: the delegation is in the map before its dispatcher is called with  *)
(* the id.  While the dispatcher of a contextual delegation runs and       *)
(* nothing has fulfilled it yet, read_context(id) returns the context that *)
(* was given and fulfill_blocking(id, Complete, json) finds the            *)
(* delegation; when the dispatcher itself fulfilled it with Complete and   *)
(* JSON that deserializes, the future resolves to Ok(Ok((value, context))) *)
(* with the deserialized value and that same context.                      *)
C28_InsertedBeforeDispatch ==
  /\ [](\A d \in Delegations :
          /\ (fut[d].pc = "dispatching" /\ fulfilled[d] = NoCall /\ fut[d].ctx # NoContext) =>
               /\ fut[d].id \in DOMAIN delmap
               /\ read_context(delmap, fut[d].id) = [tag |-> "Ok", ctx |-> fut[d].ctx]
               /\ \A json \in Jsons : ENABLED Fulfill(fut[d].id, "Complete", json, TRUE)
          /\ (/\ FulfilledWith(d, "Complete")
              /\ fulfilled[d].sync
              /\ from_str_T(fulfilled[d].json).tag = "Ok"
              /\ fut[d].ctx # NoContext) =>
               resolved[d] = OkOk(from_str_T(fulfilled[d].json).value, fut[d].ctx))
  /\ [][/\ \A d \in Delegations :
             (fut[d].pc # "dispatching" /\ fut'[d].pc = "dispatching") =>
               /\ fut[d].id \in DOMAIN delmap
               /\ delmap[fut[d].id] = [owner |-> d, context |-> fut[d].ctx]
        /\ \A d \in Delegations :
             (/\ readRet' # readRet
              /\ readRet'.id = fut[d].id
              /\ fut[d].pc = "dispatching"
              /\ fulfilled[d] = NoCall
              /\ fut[d].ctx # NoContext) =>
               readRet'.ret = [tag |-> "Ok", ctx |-> fut[d].ctx]]_vars

(* a dispatcher read the context of its delegation, fulfilled it with      *)
(* Complete and a JSON string before returning, and the future resolved    *)
C28_Witness ==
  \E d \in Delegations :
    /\ fut[d].pc = "done"
    /\ fut[d].ctx # NoContext
    /\ readRet = [id |-> fut[d].id, ret |-> [tag |-> "Ok", ctx |-> fut[d].ctx]]
    /\ fulfilled[d] = [state |-> "Complete", json |-> [kind |-> "string", v |-> 2],
                       sync |-> TRUE]
    /\ resolved[d] = OkOk(2, fut[d].ctx)

(* C29 as stated: the completion state decides the result, and Exception   *)
(* always gives Ok(Err(RemoteError::Exception)).  The code does not do     *)
(* this for an Exception whose text is no JSON.                            *)
C29_ExceptionAlwaysRemoteError ==
  \A d \in Delegations :
    /\ (FulfilledWith(d, "Complete") /\ from_str_T(fulfilled[d].json).tag = "Ok") =>
         (resolved[d].tag = "Ok(Ok)"
            /\ resolved[d].value = from_str_T(fulfilled[d].json).value)
    /\ (FulfilledWith(d, "Complete") /\ from_str_T(fulfilled[d].json).tag = "Err") =>
         resolved[d] = DelegationError("DeserializationFailed")
    /\ FulfilledWith(d, "Cancelled") => resolved[d] = OkErr("Cancelled")
    /\ FulfilledWith(d, "Exception") => resolved[d] = OkErr("Exception")

(* C29, amended: Complete with JSON that deserializes gives Ok(Ok(value)), *)
(* Complete with JSON that does not gives Err(DeserializationFailed),      *)
(* Cancelled gives Ok(Err(Cancelled)) whatever the JSON, and Exception     *)
(* gives Ok(Err(Exception)) when its text is JSON.  An Exception whose     *)
(* text is no JSON makes fulfill panic with the delegation already taken   *)
(* out of the map: the future gets Err(DispatchFailed) when the dispatcher *)
(* made the call, Err(DispatcherDropped) otherwise.                        *)
C29_CompletionStateDecidesResult ==
  \A d \in Delegations :
    /\ (FulfilledWith(d, "Complete") /\ from_str_T(fulfilled[d].json).tag = "Ok") =>
         (resolved[d].tag = "Ok(Ok)"
            /\ resolved[d].value = from_str_T(fulfilled[d].json).value)
    /\ (FulfilledWith(d, "Complete") /\ from_str_T(fulfilled[d].json).tag = "Err") =>
         resolved[d] = DelegationError("DeserializationFailed")
    /\ FulfilledWith(d, "Cancelled") => resolved[d] = OkErr("Cancelled")
    /\ (FulfilledWith(d, "Exception") /\ from_str_Value(fulfilled[d].json).tag = "Ok") =>
         resolved[d] = OkErr("Exception")
    /\ (FulfilledWith(d, "Exception") /\ from_str_Value(fulfilled[d].json).tag = "Err") =>
         resolved[d] = DelegationError(IF fulfilled[d].sync
                                       THEN "DispatchFailed" ELSE "DispatcherDropped")

(* a future whose delegation was fulfilled with Exception and JSON text    *)
(* has resolved to the remote error                                        *)
C29_Witness ==
  \E d \in Delegations :
    /\ FulfilledWith(d, "Exception")
    /\ fulfilled[d].json.kind = "object"
    /\ resolved[d] = OkErr("Exception")

(* the lifecycle of t found no downlink and has yet to deregister: it is   *)
(* the only way to fail after the authenticated event with the downlink    *)
(* never opened                                                            *)
NoDownlink(t) ==
  pc[t] = "failing" /\ downlink[t] = "closed" /\ Len(events[t]) = 2

(* C30: a named tunnel without a downlink is a closed connection.  The     *)
(* step that finds no downlink sets the lifecycle's result to              *)
(* RequestProcessingError(TunnelError) with tunnel_authenticated already   *)
(* emitted and nothing deregistered; from then on no sub-stream of the     *)
(* tunnel exists, its next step is the deregistration, which removes the   *)
(* record and leaves the result, and nothing of it changes after that: it  *)
(* is deregistered exactly once.                                           *)
C30_AbsentDownlinkIsConnectionClosed ==
  /\ [](\A t \in Tunnels :
          NoDownlink(t) =>
            /\ result[t] = [tag |-> "RequestProcessingError", err |-> "TunnelError"]
            /\ events[t][2] = Event("authenticated", tid[t], tname[t])
            /\ streams[t] = [s \in Slots |-> NoStream]
            /\ deregs[t] = 0
            /\ contains_key(tunnels, tid[t])
            /\ ENABLED DeregisterFailed(t))
  /\ [][\A t \in Tunnels :
          /\ (pc[t] = "downlink" /\ pc'[t] = "failing") => NoDownlink(t)'
          /\ (pc[t] = "downlink" /\ pc'[t] # pc[t]) => events'[t] = events[t]
          /\ (NoDownlink(t) /\ pc'[t] # pc[t]) =>
                /\ pc'[t] = "done"
                /\ deregs'[t] = 1
                /\ ~contains_key(tunnels', tid[t])
                /\ result'[t] = result[t]
                /\ events'[t] = events[t]
                /\ streams'[t] = [s \in Slots |-> NoStream]
          /\ pc[t] = "done" =>
                /\ pc'[t] = "done"
                /\ deregs'[t] = deregs[t]
                /\ streams'[t] = streams[t]
                /\ events'[t] = events[t]]_vars

(* a tunnel was named, announced as authenticated and then had no downlink *)
(* to give, while its sibling is being served                              *)
C30_Witness ==
  \E t \in Tunnels :
    /\ NoDownlink(t)
    /\ result[t] = [tag |-> "RequestProcessingError", err |-> "TunnelError"]
    /\ \E u \in Tunnels \ {t} : pc[u] = "serving" /\ downlink[u] = "open"

(* C31: once the shutdown token is cancelled no sub-stream enters           *)
(* Service::handle; a sub-stream that was in negotiation when the token was *)
(* cancelled and whose negotiation then succeeds ends at once, without a    *)
(* service result, and the step leaves its tunnel serving and registered,   *)
(* the lifecycle's result unset and every sibling sub-stream as it was.     *)
C31_NegotiatedAfterShutdownIsDropped ==
  [][shutdown =>
       \A t \in Tunnels : \A s \in Slots :
         /\ streams'[t][s].st = "handling" => streams[t][s].st = "handling"
         /\ (streams[t][s].st = "negotiating" /\ streams'[t][s].neg = "Ok") =>
               /\ streams'[t][s] = [streams[t][s] EXCEPT !.st = "finished", !.neg = "Ok"]
               /\ streams'[t][s].svc = "-"
               /\ pc[t] = "serving" /\ pc'[t] = "serving"
               /\ result'[t] = result[t]
               /\ downlink'[t] = downlink[t]
               /\ tunnels' = tunnels /\ tid[t] \in DOMAIN tunnels
               /\ \A r \in Slots : r # s => streams'[t][r] = streams[t][r]]_vars

(* the token is cancelled and the tunnel is still serving: one sub-stream   *)
(* was negotiated successfully and ended without reaching its service,      *)
(* while a sibling that reached its service before the cancellation is      *)
(* still being handled                                                      *)
C31_Witness ==
  /\ shutdown
  /\ pc[1] = "serving"
  /\ \E s \in Slots : \E r \in Slots :
       /\ streams[1][s].st = "finished"
       /\ streams[1][s].neg = "Ok" /\ streams[1][s].svc = "-"
       /\ streams[1][r].st = "handling"

(* ================= spawned registry tasks and their join =============== *)
(* ModularDaemon::register_tunnel and ::name_tunnel run the registry call   *)
(* in a task of its own and await its JoinHandle. Register and Name are     *)
(* the task running to its end; here the task ends in a JoinError instead.  *)

Unwind == [tag |-> "Unwind"]

join_error_never_unwinds(is_panic) == ApplicationError

(* .map_err(|e| if e.is_panic() { resume_unwind(e.into_panic()) }           *)
(*              else { ApplicationError("... task cancelled") })            *)
join_error(is_panic) == IF is_panic THEN Unwind ELSE ApplicationError

JoinErrors == {"panicked", "cancelled"}

(* where a lifecycle stands while its task's JoinError waits to be read *)
Spawned(phase, e) ==
  IF phase = "registering"
  THEN IF e = "panicked" THEN "registration_panicked" ELSE "registration_cancelled"
  ELSE IF e = "panicked" THEN "naming_panicked" ELSE "naming_cancelled"

(* the registry is whatever TunnelRegistry the daemon was built with: its   *)
(* call may panic before or after its write; a task that is cancelled was   *)
(* cancelled at an await, and the call's awaits are the lock acquisitions   *)
(* that precede the write                                                   *)
SpawnedTaskFails(t) ==
  /\ pc[t] \in {"registering", "naming"}
  /\ \E e \in JoinErrors :
       /\ pc' = [pc EXCEPT ![t] = Spawned(pc[t], e)]
       /\ \E wrote \in BOOLEAN :
            tunnels' = IF e = "panicked" /\ wrote
                       THEN IF pc[t] = "registering"
                            THEN register_tunnel(tunnels, tid[t], t).map
                            ELSE name_tunnel(tunnels, tid[t], tname[t]).map
                       ELSE tunnels
  /\ UNCHANGED <<source, shutdown, tid, tname, result, events, deregs, observe>>
  /\ UNCHANGED serveVars
  /\ UNCHANGED <<regVars, extVars>>

(* tokio::spawn(..).await returns Err(JoinError): a panic is resumed in the *)
(* lifecycle future, which unwinds the task of run that polls it (over a    *)
(* source of one tunnel that task holds no other lifecycle); a cancellation *)
(* becomes ApplicationError and leaves through the `?` like any other       *)
(* registration or naming error                                             *)
JoinFailed(t) ==
  /\ \E phase \in {"registering", "naming"}, e \in JoinErrors :
       /\ pc[t] = Spawned(phase, e)
       /\ LET r == join_error(e = "panicked")
          IN  IF r.tag = "Unwind"
              THEN /\ pc' = [pc EXCEPT ![t] = "panicked"]
                   /\ source' = <<>>
                   /\ UNCHANGED result
              ELSE /\ pc' = [pc EXCEPT ![t] = IF phase = "registering"
                                              THEN registration_error_returns
                                              ELSE "failing"]
                   /\ result' = [result EXCEPT ![t] =
                        [tag |-> IF phase = "registering" THEN "RegistrationError"
                                 ELSE "RegistryNamingError",
                         err |-> r.tag]]
                   /\ UNCHANGED source
  /\ UNCHANGED <<tunnels, shutdown, tid, tname, events, deregs, observe>>
  /\ UNCHANGED serveVars
  /\ UNCHANGED <<regVars, extVars>>

JoinNext ==
  \/ Next
  \/ \E t \in Tunnels : SpawnedTaskFails(t)
  \/ \E t \in Tunnels : JoinFailed(t)

(* the daemon over a source of one tunnel, with registry tasks that may     *)
(* panic or be cancelled                                                    *)
JoinSpec == ServeInit /\ [][JoinNext]_vars

CancelledNaming(t) ==
  /\ pc[t] = "failing"
  /\ result[t] = [tag |-> "RegistryNamingError", err |-> "ApplicationError"]

(* C32: when the spawned registration or naming task has panicked, the      *)
(* lifecycle's next step is the panic itself: it returns no result, makes   *)
(* no registry call and sends no event. When the task was cancelled, the    *)
(* lifecycle's next step turns it into the ApplicationError of the phase:   *)
(* after a cancelled registration the lifecycle has returned                *)
(* RegistrationError(ApplicationError) and never calls deregister_tunnel;   *)
(* after a cancelled naming the lifecycle's next step is deregister_tunnel  *)
(* on its id, and it then returns RegistryNamingError(ApplicationError).    *)
C32_JoinErrors ==
  /\ [](\A t \in Tunnels :
          /\ pc[t] = "panicked" => result[t] = NoRet /\ deregs[t] = 0
          /\ pc[t] = "dropped" => result[t].tag = "RegistrationError" /\ deregs[t] = 0)
  /\ [][\A t \in Tunnels :
          /\ (\E phase \in {"registering", "naming"} :
                pc[t] = Spawned(phase, "panicked") /\ pc'[t] # pc[t]) =>
               /\ pc'[t] = "panicked"
               /\ result' = result /\ deregs' = deregs /\ events' = events
               /\ tunnels' = tunnels
          /\ (pc[t] = Spawned("registering", "cancelled") /\ pc'[t] # pc[t]) =>
               /\ pc'[t] = "dropped"
               /\ result'[t] = [tag |-> "RegistrationError", err |-> "ApplicationError"]
               /\ deregs' = deregs /\ events' = events /\ tunnels' = tunnels
          /\ (pc[t] = Spawned("naming", "cancelled") /\ pc'[t] # pc[t]) =>
               /\ CancelledNaming(t)'
               /\ deregs' = deregs /\ events' = events /\ tunnels' = tunnels
               /\ tid[t] \in DOMAIN tunnels
          /\ (CancelledNaming(t) /\ pc'[t] # pc[t]) =>
               /\ pc'[t] = "done"
               /\ deregs'[t] = deregs[t] + 1
               /\ tunnels' = remove(tunnels, tid[t])
               /\ result'[t] = result[t]
          /\ pc[t] \in {"panicked", "dropped"} =>
               pc'[t] = pc[t] /\ deregs'[t] = deregs[t]]_vars

(* the naming task of a registered tunnel was cancelled; the lifecycle has  *)
(* deregistered the tunnel once and returned the ApplicationError, with     *)
(* tunnel_connected the only event sent                                     *)
C32_Witness ==
  \E t \in Tunnels :
    /\ pc[t] = "done"
    /\ result[t] = [tag |-> "RegistryNamingError", err |-> "ApplicationError"]
    /\ deregs[t] = 1
    /\ tid[t] \notin DOMAIN tunnels
    /\ Len(events[t]) = 1

HandlerRunning(t) ==
  \E s \in Slots : streams[t][s].st \in {"negotiating", "handling"}

(* C33: while a tunnel is serving and one of its sub-stream handlers is     *)
(* still in negotiation or in Service::handle, the registry holds the       *)
(* tunnel's record under its id and its lifecycle has made no deregister    *)
(* call, whether or not the downlink has ended or shutdown was requested;   *)
(* serving ends gracefully only in a step before which the stream had       *)
(* ended and no handler was running, and the graceful deregistration is     *)
(* the lifecycle's step after that, removing the record and returning Ok.   *)
C33_GracefulDeregistrationWaitsForHandlers ==
  /\ [](\A t \in Tunnels :
          /\ (pc[t] = "serving" /\ HandlerRunning(t)) =>
               /\ lookup_by_id(tunnels, tid[t]) = Some(TunnelRecord(tid[t], tname[t], t))
               /\ deregs[t] = 0
          /\ pc[t] = "closing" =>
               /\ ~HandlerRunning(t)
               /\ lookup_by_id(tunnels, tid[t]) = Some(TunnelRecord(tid[t], tname[t], t))
               /\ deregs[t] = 0)
  /\ [][\A t \in Tunnels :
          /\ (pc[t] = "serving" /\ pc'[t] = "closing") =>
               /\ ~HandlerRunning(t)
               /\ downlink[t] = "ended" \/ shutdown
               /\ tunnels' = tunnels /\ deregs' = deregs /\ streams' = streams
          /\ (pc[t] = "serving" /\ HandlerRunning(t)) =>
               pc'[t] \in {"serving", "failing"}
          /\ (pc[t] = "closing" /\ pc'[t] # "closing") =>
               /\ pc'[t] = "done"
               /\ tunnels' = remove(tunnels, tid[t])
               /\ deregs'[t] = 1
               /\ result'[t] = Ok]_vars

(* shutdown was requested and the downlink's stream is over, yet the        *)
(* tunnel is serving and registered: one handler is in Service::handle and  *)
(* another still in negotiation                                             *)
C33_Witness ==
  \E t \in Tunnels :
    /\ shutdown
    /\ pc[t] = "serving"
    /\ tid[t] \in DOMAIN tunnels
    /\ deregs[t] = 0
    /\ \E s \in Slots : \E r \in Slots :
         /\ streams[t][s].st = "handling"
         /\ streams[t][r].st = "negotiating"

FatalResults ==
  {lifecycle_error("UnsupportedProtocolVersion"), lifecycle_error("FatalError"),
   lifecycle_error("TunnelError")}

(* C34: the step in which a sub-stream's negotiation ends with              *)
(* UnsupportedProtocolVersion or FatalError, or the downlink yields a       *)
(* TunnelError, ends the serving of the tunnel with that error: after it    *)
(* no handler of the tunnel is in negotiation or in Service::handle, the    *)
(* handlers that were are dropped without an outcome, and the record is     *)
(* still registered. From then on the tunnel accepts no sub-stream, and     *)
(* its lifecycle's next step is deregister_tunnel on its id, after which    *)
(* it has returned the error.                                               *)
C34_FatalErrorDropsSiblings ==
  [][\A t \in Tunnels :
       /\ (pc[t] = "serving" /\ pc'[t] # "serving" /\ pc'[t] # "closing") =>
            /\ pc'[t] = "failing"
            /\ result'[t] \in FatalResults
            /\ ~HandlerRunning(t)'
            /\ tunnels' = tunnels /\ tid[t] \in DOMAIN tunnels
            /\ deregs' = deregs
            /\ \A s \in Slots :
                 \/ streams'[t][s] = streams[t][s]
                    /\ streams[t][s].st \in {"absent", "finished"}
                 \/ streams[t][s].st \in {"negotiating", "handling"}
                    /\ streams'[t][s] = [streams[t][s] EXCEPT !.st = "dropped"]
                 \/ streams[t][s].st = "negotiating"
                    /\ streams'[t][s].st = "finished"
                    /\ lifecycle_error(streams'[t][s].neg) = result'[t]
            /\ \/ result'[t] = lifecycle_error("TunnelError")
               \/ \E s \in Slots : Finishes(t, s)
       /\ \A s \in Slots :
            (Finishes(t, s) /\ streams'[t][s].neg \in {"UnsupportedProtocolVersion",
                                                       "FatalError"}) =>
               pc'[t] = "failing"
       /\ (pc[t] = "failing" /\ result[t] \in FatalResults) =>
            /\ streams'[t] = streams[t] \/ pc'[t] = "done"
            /\ opened' = opened
            /\ pc'[t] # pc[t] =>
                 /\ pc'[t] = "done"
                 /\ tunnels' = remove(tunnels, tid[t])
                 /\ deregs'[t] = deregs[t] + 1
                 /\ result'[t] = result[t]]_vars

(* a negotiation ended with FatalError while a sibling was in               *)
(* Service::handle: serving is over with the error, the sibling was         *)
(* dropped without a service result, and the tunnel is still registered     *)
(* and about to be deregistered                                             *)
C34_Witness ==
  \E t \in Tunnels :
    /\ pc[t] = "failing"
    /\ result[t] = lifecycle_error("FatalError")
    /\ tid[t] \in DOMAIN tunnels
    /\ \E s \in Slots : \E r \in Slots :
         /\ streams[t][s].st = "finished" /\ streams[t][s].neg = "FatalError"
         /\ streams[t][r].st = "dropped"
         /\ streams[t][r].neg = "Ok" /\ streams[t][r].svc = "-"

(* ============ one SerializedTunnelRegistry per tunnel lifecycle ======== *)
(* tunnel_lifecycle wraps the daemon's registry in a SerializedTunnelRegistry *)
(* of its own and makes its register, name and deregister calls through    *)
(* it; ModularDaemon::new hands the request handler the registry itself.   *)

wrapper_shared(c) == 0

(* Arc::new(SerializedTunnelRegistry::new(Arc::clone(&self.tunnel_registry))) *)
(* at the head of every tunnel_lifecycle: the wrapper of lifecycle c is c's *)
wrapper_of(c) == c

(* inner.write().await of c's wrapper: no guard of that wrapper is held *)
OwnWriteAvailable(c) ==
  \A d \in Callers : wrapper_of(d) = wrapper_of(c) => rwlock[d] = "none"

(* the id tunnel_lifecycle is called with: run mints one per tunnel *)
lifecycle_id(c) == ((c - 1) % NumIds) + 1

(* lifecycle c calls its wrapper, with its own id, and gets the wrapper's   *)
(* write guard                                                             *)
LifecycleCall(c, kind) ==
  /\ kind \in Mutations
  /\ op[c].stage = "idle"
  /\ OwnWriteAvailable(c)
  /\ rwlock' = [rwlock EXCEPT ![c] = "write"]
  /\ \E n \in IF kind = "name" THEN TunnelNames ELSE {NoName} :
       op' = [op EXCEPT ![c] =
                [kind |-> kind, id |-> lifecycle_id(c), name |-> n,
                 stage |-> "wrapped", ret |-> NoRet]]
  /\ UNCHANGED <<tunnels, mutex, completed>>
  /\ UNCHANGED <<daemonVars, extVars>>

(* a lookup is called on the daemon's registry itself: no wrapper, the     *)
(* call waits for the map's mutex only                                     *)
DirectLookup(c, kind) ==
  /\ kind \in OpKinds \ Mutations
  /\ op[c].stage = "idle"
  /\ \E i \in IF kind = "lookup_by_name" THEN {0} ELSE TunnelIds,
        n \in IF kind = "lookup_by_name" THEN TunnelNames ELSE {NoName} :
       op' = [op EXCEPT ![c] =
                [kind |-> kind, id |-> i, name |-> n,
                 stage |-> "called", ret |-> NoRet]]
  /\ UNCHANGED <<tunnels, mutex, completed, rwlock>>
  /\ UNCHANGED <<daemonVars, extVars>>

(* tunnels.lock().await of the direct call resolves *)
DirectLock(c) ==
  /\ op[c].stage = "called"
  /\ MutexAvailable
  /\ mutex' = c
  /\ op' = [op EXCEPT ![c].stage = "locked"]
  /\ UNCHANGED <<tunnels, completed, rwlock>>
  /\ UNCHANGED <<daemonVars, extVars>>

OwnNext ==
  \E c \in Callers :
    \/ \E kind \in Mutations : LifecycleCall(c, kind)
    \/ \E kind \in OpKinds \ Mutations : DirectLookup(c, kind)
    \/ DirectLock(c)
    \/ InnerLock(c)
    \/ RegisterBody(c)
    \/ NameScan(c)
    \/ NameAssign(c)
    \/ DeregisterBody(c)
    \/ LookupBody(c)
    \/ Return(c)

(* every lifecycle behind a wrapper of its own, lookups made directly *)
OwnSpec == RegInit /\ [][OwnNext]_vars

(* C35: a lifecycle's wrapper never makes it wait: whenever it is between   *)
(* calls it can start a register, name or deregister call at once, whatever *)
(* the other lifecycles hold; a call that waits, through a wrapper or made  *)
(* directly, waits for the map's mutex and nothing else; and the mutex is   *)
(* what orders the calls: at most one is inside the inner registry, holding *)
(* the mutex, and every wrapper guard held is a write guard of the          *)
(* holder's own call.                                                       *)
C35_OneWrapperPerLifecycle ==
  /\ \A c \in Callers :
       /\ op[c].stage = "idle" =>
            /\ rwlock[c] = "none"
            /\ \A kind \in Mutations : ENABLED LifecycleCall(c, kind)
            /\ \A kind \in OpKinds \ Mutations : ENABLED DirectLookup(c, kind)
       /\ op[c].stage = "wrapped" =>
            /\ rwlock[c] = "write" /\ op[c].kind \in Mutations
            /\ (ENABLED InnerLock(c)) <=> mutex = NoHolder
       /\ op[c].stage = "called" =>
            /\ rwlock[c] = "none" /\ op[c].kind \notin Mutations
            /\ (ENABLED DirectLock(c)) <=> mutex = NoHolder
       /\ InCriticalSection(c) => mutex = c
  /\ Cardinality({c \in Callers : InCriticalSection(c)}) <= 1

(* two lifecycles are in a registry write at once, each holding the write   *)
(* guard of its own wrapper: one is inside name_tunnel between its scan and *)
(* its assignment, the other waits for the map's mutex                      *)
C35_Witness ==
  \E c \in Callers : \E d \in Callers \ {c} :
    /\ rwlock[c] = "write" /\ op[c].kind = "name" /\ op[c].stage = "scanned"
    /\ rwlock[d] = "write" /\ op[d].kind \in Mutations /\ op[d].stage = "wrapped"
    /\ mutex = c

CarriesName(c) ==
  /\ op[c].kind = "name"
  /\ op[c].id \in DOMAIN tunnels
  /\ tunnels[op[c].id].name = op[c].name

(* C37: name_tunnel(id, n) on a record that already carries the name n      *)
(* returns Ok and leaves the map as it was: as a whole, on every map the    *)
(* registry reaches, and step by step: the scan lets the call pass and the  *)
(* assignment stores the name the record has.                               *)
C37_OwnNameIsAccepted ==
  /\ [](\A i \in DOMAIN tunnels :
          tunnels[i].name # NoName =>
            name_tunnel(tunnels, i, tunnels[i].name) = [map |-> tunnels, ret |-> Ok])
  /\ [][\A c \in Callers :
          CarriesName(c) =>
            /\ (op[c].stage = "locked" /\ op'[c].stage # "locked") =>
                 op'[c].stage = "scanned" /\ tunnels' = tunnels
            /\ (op[c].stage = "scanned" /\ op'[c].stage # "scanned") =>
                 /\ op'[c].stage = "done"
                 /\ op'[c].ret = Ok
                 /\ tunnels' = tunnels]_vars

(* a name_tunnel(id, n) has passed its scan on a record that carries n,     *)
(* while another record is registered under another name                    *)
C37_Witness ==
  \E c \in Callers :
    /\ CarriesName(c)
    /\ op[c].stage = "scanned"
    /\ \E k \in DOMAIN tunnels : k # op[c].id /\ tunnels[k].name \notin {NoName, op[c].name}

(* ================== the registry's locks and their queues ============== *)
(* Both locks are tokio's: waiters are served first come, first served.    *)
(* A call made through the SerializedTunnelRegistry queues on its RwLock   *)
(* and, holding its guard, on the Mutex of the inner registry; a call made *)
(* on the inner registry itself queues on the Mutex only.                  *)

fifoFrame ==
  UNCHANGED <<daemonVars, svcVars, tcpVars, arcVars, evtVars, delVars, fulVars, runVars>>

(* a method is called: through the wrapper it starts with inner.write() or *)
(* inner.read(), on the inner registry with tunnels.lock(); the locks are  *)
(* taken whatever the arguments are, so each caller keeps to one id        *)
QueueCall(c, kind, through_wrapper) ==
  /\ op[c].stage = "idle"
  /\ \E i \in IF kind = "lookup_by_name" THEN {0} ELSE {lifecycle_id(c)},
        n \in IF kind \in {"name", "lookup_by_name"} THEN TunnelNames ELSE {NoName} :
       op' = [op EXCEPT ![c] =
                [kind |-> kind, id |-> i, name |-> n,
                 stage |-> IF through_wrapper THEN "requested" ELSE "called",
                 ret |-> NoRet]]
  /\ IF through_wrapper
     THEN rwWaiters' = Append(rwWaiters, c) /\ UNCHANGED mutexWaiters
     ELSE mutexWaiters' = Append(mutexWaiters, c) /\ UNCHANGED rwWaiters
  /\ UNCHANGED <<tunnels, mutex, completed, rwlock>>
  /\ fifoFrame

(* inner.write().await / inner.read().await resolves for the first waiter; *)
(* the call goes on to the inner registry's method and its lock().await    *)
QueueWrapAcquire(c) ==
  /\ op[c].stage = "requested"
  /\ rwWaiters # <<>> /\ Head(rwWaiters) = c
  /\ IF op[c].kind \in Mutations THEN WriteAvailable ELSE ReadAvailable
  /\ rwlock' = [rwlock EXCEPT ![c] = IF op[c].kind \in Mutations THEN "write" ELSE "read"]
  /\ rwWaiters' = Tail(rwWaiters)
  /\ mutexWaiters' = Append(mutexWaiters, c)
  /\ op' = [op EXCEPT ![c].stage = "wrapped"]
  /\ UNCHANGED <<tunnels, mutex, completed>>
  /\ fifoFrame

(* tunnels.lock().await resolves for the first waiter *)
QueueInnerLock(c) ==
  /\ op[c].stage \in {"wrapped", "called"}
  /\ mutexWaiters # <<>> /\ Head(mutexWaiters) = c
  /\ MutexAvailable
  /\ mutex' = c
  /\ mutexWaiters' = Tail(mutexWaiters)
  /\ op' = [op EXCEPT ![c].stage = "locked"]
  /\ UNCHANGED <<tunnels, completed, rwlock, rwWaiters>>
  /\ fifoFrame

(* what a call does once it has the mutex, up to its return *)
InsideRegistry(c) ==
  \/ RegisterBody(c)
  \/ NameScan(c)
  \/ NameAssign(c)
  \/ DeregisterBody(c)
  \/ LookupBody(c)
  \/ Return(c)

QueueNext ==
  \E c \in Callers :
    \/ \E kind \in OpKinds, through_wrapper \in BOOLEAN : QueueCall(c, kind, through_wrapper)
    \/ QueueWrapAcquire(c)
    \/ QueueInnerLock(c)
    \/ InsideRegistry(c)

(* the executor polls every future that can go on *)
QueueFairness ==
  \A c \in Callers :
    /\ WF_vars(QueueWrapAcquire(c))
    /\ WF_vars(QueueInnerLock(c))
    /\ WF_vars(InsideRegistry(c))

QueueSpec == RegInit /\ [][QueueNext]_vars /\ QueueFairness

Waiting(c) == op[c].stage \in {"requested", "wrapped", "called"}

(* C36: a call that waits for the wrapper's lock holds nothing; a call      *)
(* that waits for the map's mutex holds at most its own wrapper guard,      *)
(* taken before; the holder of the mutex is inside a registry body and can  *)
(* always take its next step, up to the return that frees the mutex and     *)
(* the guard; between calls a caller holds and waits for nothing. So        *)
(* whenever a call is under way some call can go on, and under fair         *)
(* scheduling every call that was started returns.                          *)
C36_NoDeadlock ==
  /\ [](\A c \in Callers :
          /\ op[c].stage = "requested" => rwlock[c] = "none" /\ mutex # c
          /\ op[c].stage = "wrapped" => rwlock[c] # "none" /\ mutex # c
          /\ op[c].stage = "called" => rwlock[c] = "none" /\ mutex # c
          /\ InCriticalSection(c) <=> mutex = c
          /\ InCriticalSection(c) => ENABLED InsideRegistry(c)
          /\ op[c].stage = "idle" =>
               /\ rwlock[c] = "none"
               /\ \A k \in 1..Len(rwWaiters) : rwWaiters[k] # c
               /\ \A k \in 1..Len(mutexWaiters) : mutexWaiters[k] # c)
  /\ []((\E c \in Callers : op[c].stage # "idle") =>
          \E c \in Callers :
            ENABLED (QueueWrapAcquire(c) \/ QueueInnerLock(c) \/ InsideRegistry(c)))
  /\ \A c \in Callers : (op[c].stage # "idle") ~> (op[c].stage = "idle")

(* a write made through the wrapper holds the wrapper's guard and waits for *)
(* the mutex, which a lookup made on the inner registry holds, while        *)
(* another call waits behind it                                             *)
C36_Witness ==
  \E c \in Callers : \E d \in Callers \ {c} :
    /\ op[c].stage = "wrapped" /\ rwlock[c] = "write"
    /\ mutex = d /\ rwlock[d] = "none" /\ op[d].kind = "lookup_by_name"
    /\ mutexWaiters = <<c>>

(* ================== detach and fulfill, call by call =================== *)
(* The remote side calls detach and fulfill from any thread, any number of *)
(* times, with the ids its dispatchers were given.                         *)

Fulfillers == 1..NumFulfillers

NoDelegation == [owner |-> 0, context |-> 0]

detach_peeks(m, id) ==
  IF id \in DOMAIN m THEN [map |-> m, ret |-> Some(m[id])] ELSE [map |-> m, ret |-> None]

(* DelegationSet::detach / detach_blocking: map.remove_u64(task_id), under *)
(* the map's lock; an id the map does not hold yields no delegation        *)
detach(m, id) ==
  IF id \in DOMAIN m
  THEN [map |-> [k \in DOMAIN m \ {id} |-> m[k]], ret |-> Some(m[id])]
  ELSE [map |-> m, ret |-> None]

(* DelegationSet::len *)
len(m) == Cardinality(DOMAIN m)

(* (completion_state, json) pairs, one for each way a fulfill can end *)
FulfillInputs ==
  { <<"Complete", [kind |-> "string", v |-> 1]>>,
    <<"Complete", [kind |-> "garbage", v |-> 0]>>,
    <<"Cancelled", [kind |-> "garbage", v |-> 0]>>,
    <<"Exception", [kind |-> "object", v |-> 0]>>,
    <<"Exception", [kind |-> "garbage", v |-> 0]>> }

fulFrame ==
  UNCHANGED <<tunnels, regVars, daemonVars, svcVars, tcpVars, arcVars, evtVars,
              fifoVars, runVars>>

(* the first statement of fulfill / fulfill_blocking, or a detach call:    *)
(* the delegation is taken out of the map, or the call returns its error   *)
DetachStep(k, kind, id, input) ==
  /\ fcall[k].pc = "idle"
  /\ id \in known
  /\ LET r == detach(delmap, id)
     IN  /\ delmap' = r.map
         /\ fcall' = [fcall EXCEPT ![k] =
              [pc |-> IF r.ret.tag = "Some" THEN "detached" ELSE "idle",
               kind |-> kind, id |-> id,
               state |-> input[1], json |-> input[2],
               held |-> IF r.ret.tag = "Some" THEN r.ret.rec ELSE NoDelegation,
               ret |-> IF r.ret.tag = "Some" THEN "-" ELSE "Err"]]
  /\ UNCHANGED <<fut, known, oneshot, fulfilled, readRet, resolved, deliveries>>
  /\ fulFrame

(* the second statement of fulfill / fulfill_blocking:                     *)
(* delegation.send(Self::map_completion_state(completion_state, json))     *)
FulfillSend(k) ==
  /\ fcall[k].pc = "detached" /\ fcall[k].kind = "fulfill"
  /\ LET d == fcall[k].held.owner
         raw == map_completion_state(fcall[k].state, fcall[k].json)
     IN  /\ oneshot' = [oneshot EXCEPT ![d] =
               IF raw.tag = "Panic" THEN Panicked ELSE send(fcall[k].held, raw)]
         /\ deliveries' = [deliveries EXCEPT ![d] =
               IF raw.tag = "Panic" THEN @ ELSE @ + 1]
         /\ fulfilled' = [fulfilled EXCEPT ![d] =
               [state |-> fcall[k].state, json |-> fcall[k].json, sync |-> FALSE]]
         /\ fcall' = [fcall EXCEPT ![k].pc = "idle", ![k].held = NoDelegation,
                                   ![k].ret = IF raw.tag = "Panic" THEN "Panic" ELSE "Ok"]
  /\ UNCHANGED <<fut, delmap, known, readRet, resolved>>
  /\ fulFrame

(* the caller of detach drops the Delegation it was given, and with it the *)
(* sender of the oneshot                                                   *)
DropDetached(k) ==
  /\ fcall[k].pc = "detached" /\ fcall[k].kind = "detach"
  /\ oneshot' = [oneshot EXCEPT ![fcall[k].held.owner] = Panicked]
  /\ fcall' = [fcall EXCEPT ![k].pc = "idle", ![k].held = NoDelegation, ![k].ret = "Some"]
  /\ UNCHANGED <<fut, delmap, known, fulfilled, readRet, resolved, deliveries>>
  /\ fulFrame

FulNext ==
  \/ \E d \in Delegations : DelStart(d, NoContext)
  \/ \E d \in Delegations : DelInsert(d)
  \/ \E d \in Delegations : DelDispatch(d)
  \/ \E k \in Fulfillers, id \in Handles, input \in FulfillInputs :
       DetachStep(k, "fulfill", id, input)
  \/ \E k \in Fulfillers, id \in Handles : DetachStep(k, "detach", id, <<"-", NoCall.json>>)
  \/ \E k \in Fulfillers : FulfillSend(k)
  \/ \E k \in Fulfillers : DropDetached(k)
  \/ \E d \in Delegations : DelReturn(d)
  \/ \E d \in Delegations : DelResolve(d)

FulSpec == RegInit /\ [][FulNext]_vars

Holds(k) == fcall[k].pc = "detached"

(* C38: no delegating future is sent more than one result; a delegation is  *)
(* in the map or in the hands of at most one detach or fulfill call, never  *)
(* both; the call that gets it removes its id from the map, so that len     *)
(* drops by one in that step and the id never comes back; a detach or       *)
(* fulfill call for an id the map does not hold returns an error and        *)
(* changes neither the map nor any oneshot; and a result is sent only by    *)
(* the fulfill call that holds the delegation.                              *)
C38_FulfilledAtMostOnce ==
  /\ [](/\ \A d \in Delegations : deliveries[d] <= 1
        /\ \A k \in Fulfillers :
             Holds(k) =>
               /\ fcall[k].id \notin DOMAIN delmap
               /\ \A id \in DOMAIN delmap : delmap[id].owner # fcall[k].held.owner
               /\ \A j \in Fulfillers \ {k} :
                    Holds(j) => fcall[j].held.owner # fcall[k].held.owner
               /\ deliveries[fcall[k].held.owner] = 0)
  /\ [][/\ \A k \in Fulfillers :
             /\ (fcall[k].pc = "idle" /\ fcall'[k] # fcall[k]) =>
                  IF fcall'[k].id \in DOMAIN delmap
                  THEN /\ Holds(k)'
                       /\ fcall'[k].held = delmap[fcall'[k].id]
                       /\ delmap' = [i \in DOMAIN delmap \ {fcall'[k].id} |-> delmap[i]]
                       /\ len(delmap') = len(delmap) - 1
                       /\ UNCHANGED <<oneshot, deliveries>>
                  ELSE /\ fcall'[k].pc = "idle" /\ fcall'[k].ret = "Err"
                       /\ UNCHANGED <<delmap, oneshot, deliveries>>
        /\ \A id \in DOMAIN delmap' : id \in DOMAIN delmap \/ id \notin known
        /\ \A d \in Delegations :
             deliveries'[d] # deliveries[d] =>
               \E k \in Fulfillers :
                 /\ Holds(k) /\ fcall[k].kind = "fulfill" /\ fcall[k].held.owner = d
                 /\ fcall'[k].pc = "idle" /\ fcall'[k].ret = "Ok"
                 /\ oneshot[d] = Pending /\ oneshot'[d] # Pending]_vars

(* two fulfill calls were made for one id: one delivered its result and    *)
(* returned Ok, the other returned the error, and the future got exactly   *)
(* the result of the first                                                 *)
C38_Witness ==
  \E k \in Fulfillers : \E j \in Fulfillers \ {k} : \E d \in Delegations :
    /\ fcall[k].pc = "idle" /\ fcall[k].kind = "fulfill" /\ fcall[k].ret = "Ok"
    /\ fcall[j].pc = "idle" /\ fcall[j].kind = "fulfill" /\ fcall[j].ret = "Err"
    /\ fcall[j].id = fcall[k].id /\ fcall[k].id = fut[d].id
    /\ fcall[k].state = "Complete" /\ fcall[j].state = "Cancelled"
    /\ deliveries[d] = 1
    /\ len(delmap) = 0
    /\ fut[d].pc = "done" /\ resolved[d].tag = "Ok(Ok)"

(* ============================ EventRunner ============================== *)
(* fire_evented spawns the event task and its monitor on the same runtime. *)
(* The tokio runtime is taken as documented: a task that panics or is      *)
(* dropped leaves a JoinError in its JoinHandle, and a runtime that is     *)
(* shut down drops every task it still holds at that task's await; a       *)
(* worker that has not yet seen the shutdown may still poll a woken task.  *)

Fires == 1..NumFires

EventIds == 1..NumEventIds

(* the values a future may return, by whether serde can serialize them *)
EventValues == { [serializable |-> TRUE, v |-> 1], [serializable |-> FALSE, v |-> 2] }

EmptyPayload == [ptr |-> 0, len |-> 0]

(* serde_json::to_string *)
to_string(value) ==
  IF value.serializable
  THEN [tag |-> "Ok", json |-> [ptr |-> value.v, len |-> 1]]
  ELSE [tag |-> "Err", json |-> EmptyPayload]

(* the match on &res in the event task *)
completion_state(res) == IF res = "Ok" THEN "Complete" ELSE "Failed"

(* the chain of tests on the JoinError in monitor *)
monitor_state(st) ==
  IF st = "panicked" THEN "Panicked"
  ELSE IF st = "cancelled" THEN "Cancelled"
  ELSE "DispatchFailed"

runFrame ==
  UNCHANGED <<tunnels, regVars, daemonVars, svcVars, tcpVars, arcVars, evtVars,
              delVars, fifoVars, fulVars>>

(* EventRunner::fire_evented(event_id, event_dispatch) on a live runtime *)
FireEvented(k, event_id) ==
  /\ rt = "running"
  /\ etask[k].st = "none"
  /\ etask' = [etask EXCEPT ![k] = [st |-> "running", id |-> event_id, res |-> "-"]]
  /\ monitors' = [monitors EXCEPT ![k] = "waiting"]
  /\ UNCHANGED <<rt, reports>>
  /\ runFrame

(* the event task from the point where event_dispatch returns res: it      *)
(* serializes, unwraps with expect, and calls report                       *)
EventTaskReturns(k, res, value) ==
  /\ etask[k].st = "running"
  /\ LET json == to_string(value)
     IN  IF json.tag = "Ok"
         THEN /\ reports' = Append(reports,
                     [fire |-> k, id |-> etask[k].id, state |-> completion_state(res),
                      payload |-> json.json, by |-> "task"])
              /\ etask' = [etask EXCEPT ![k].st = "finished", ![k].res = res]
         ELSE /\ reports' = reports
              /\ etask' = [etask EXCEPT ![k].st = "panicked", ![k].res = res]
  /\ UNCHANGED <<rt, monitors>>
  /\ runFrame

(* event_dispatch panics while the event task awaits it *)
EventTaskPanics(k) ==
  /\ etask[k].st = "running"
  /\ etask' = [etask EXCEPT ![k].st = "panicked"]
  /\ UNCHANGED <<rt, monitors, reports>>
  /\ runFrame

(* the owner of the runtime shuts it down: the EventRunner holds only a    *)
(* tokio::runtime::Handle                                                  *)
RuntimeShutdown ==
  /\ rt = "running"
  /\ rt' = "shutdown"
  /\ UNCHANGED <<etask, monitors, reports>>
  /\ runFrame

(* the runtime drops an event task waiting in event_dispatch.await *)
EventTaskDropped(k) ==
  /\ rt = "shutdown"
  /\ etask[k].st = "running"
  /\ etask' = [etask EXCEPT ![k].st = "cancelled"]
  /\ UNCHANGED <<rt, monitors, reports>>
  /\ runFrame

(* the runtime drops a monitor waiting in spawned_task.await *)
MonitorDropped(k) ==
  /\ rt = "shutdown"
  /\ monitors[k] = "waiting"
  /\ monitors' = [monitors EXCEPT ![k] = "dropped"]
  /\ UNCHANGED <<rt, etask, reports>>
  /\ runFrame

(* EventRunner::monitor once spawned_task.await has a value *)
monitor(k) ==
  /\ monitors[k] = "waiting"
  /\ etask[k].st \in {"finished", "panicked", "cancelled"}
  /\ reports' =
       IF etask[k].st = "finished" THEN reports
       ELSE Append(reports,
              [fire |-> k, id |-> etask[k].id, state |-> monitor_state(etask[k].st),
               payload |-> EmptyPayload, by |-> "monitor"])
  /\ monitors' = [monitors EXCEPT ![k] = "done"]
  /\ UNCHANGED <<rt, etask>>
  /\ runFrame

RunNext ==
  \/ \E k \in Fires, event_id \in EventIds : FireEvented(k, event_id)
  \/ \E k \in Fires, res \in {"Ok", "Err"}, value \in EventValues :
       EventTaskReturns(k, res, value)
  \/ \E k \in Fires : EventTaskPanics(k)
  \/ RuntimeShutdown
  \/ \E k \in Fires : EventTaskDropped(k)
  \/ \E k \in Fires : MonitorDropped(k)
  \/ \E k \in Fires : monitor(k)

RunSpec == RegInit /\ [][RunNext]_vars

ReportsOf(k) == SelectSeq(reports, LAMBDA r : r.fire = k)

Settled(k) ==
  /\ etask[k].st \in {"finished", "panicked", "cancelled"}
  /\ monitors[k] \in {"done", "dropped"}

(* C39: the callback is never invoked twice for one fire_evented call, and *)
(* once the event task and its monitor have both ended it has been invoked *)
(* exactly once, with the call's event_id: with Complete or Failed and the *)
(* serialized value when the task reported the future's Ok or Err, with    *)
(* Panicked and an empty payload when the task panicked before reporting,  *)
(* with Cancelled and an empty payload when it was cancelled; and no       *)
(* report of a task that completed normally comes from the monitor.        *)
C39_ReportedExactlyOnce ==
  \A k \in Fires :
    /\ Len(ReportsOf(k)) <= 1
    /\ \A i \in 1..Len(reports) :
         (reports[i].fire = k /\ etask[k].st = "finished") => reports[i].by = "task"
    /\ Settled(k) =>
         /\ Len(ReportsOf(k)) = 1
         /\ LET r == ReportsOf(k)[1]
            IN  /\ r.id = etask[k].id
                /\ etask[k].st = "finished" =>
                     /\ r.state = completion_state(etask[k].res)
                     /\ r.payload # EmptyPayload
                /\ etask[k].st = "panicked" =>
                     r.state = "Panicked" /\ r.payload = EmptyPayload
                /\ etask[k].st = "cancelled" =>
                     r.state = "Cancelled" /\ r.payload = EmptyPayload
====
